---- MODULE Spec2Model ----
(***************************************************************************)
(* A model of the lazy resource graph loader of cla-wrapper                *)
(* (src/src/utils/apiRequest.js, the TypeScript CdiscLibrary classes).     *)
(*                                                                         *)
(* Text is a sequence of one-character strings, an href is a sequence of   *)
(* path segments, a JavaScript object used as a mapping is an ordered list *)
(* of [k, v] entries (insertion order, as Object.keys/Object.values        *)
(* enumerate it), a JSON array is a sequence, and a raw JSON object is a   *)
(* record whose DOMAIN is the set of its own properties.  Objects that the *)
(* code shares by reference (the catalog, the products and their child     *)
(* mappings) live in heaps indexed by references.                          *)
(***************************************************************************)
EXTENDS Integers, Sequences, FiniteSets, TLC

VARIABLES
    productClasses, \* CdiscLibrary.productClasses: a catalog reference, or None (undefined)
    catalogs,       \* heap: catalog reference -> pcId -> pgId -> product id -> product reference
    products,       \* heap: product reference -> Product object
    childMaps,      \* heap: reference -> a dataStructures / dataClasses mapping
    calls,          \* caller -> the asynchronous call it has in flight (or idle / done)
    opCount,        \* number of operations started so far
    node,           \* SpecParse: the node being re-parsed
    lastRaw,        \* SpecParse: the response parsed last
    arg,            \* SpecFunctions: the function applied last and its arguments
    out,            \* SpecFunctions: what that application returned
    graph,          \* SpecCoreObject: the catalog with the coreObject every node holds
    core            \* SpecTransport: the CoreObject, its cache, and the requests in flight

vars == <<productClasses, catalogs, products, childMaps, calls, opCount, node, lastRaw,
          arg, out, graph, core>>

-----------------------------------------------------------------------------
(* Bounds *)

MaxOps == 3

Callers == {"c1", "c2"}

-----------------------------------------------------------------------------
(* Text *)

LowerLetters == <<"a","b","c","d","e","f","g","h","i","j","k","l","m",
                  "n","o","p","q","r","s","t","u","v","w","x","y","z">>

UpperLetters == <<"A","B","C","D","E","F","G","H","I","J","K","L","M",
                  "N","O","P","Q","R","S","T","U","V","W","X","Y","Z">>

UpperChar(c) ==
    IF \E i \in DOMAIN LowerLetters : LowerLetters[i] = c
    THEN UpperLetters[CHOOSE i \in DOMAIN LowerLetters : LowerLetters[i] = c]
    ELSE c

LowerChar(c) ==
    IF \E i \in DOMAIN UpperLetters : UpperLetters[i] = c
    THEN LowerLetters[CHOOSE i \in DOMAIN UpperLetters : UpperLetters[i] = c]
    ELSE c

ToUpperCaseIdentity(s) == s

ToUpperCase(s) == [i \in 1..Len(s) |-> UpperChar(s[i])]

ToLowerCase(s) == [i \in 1..Len(s) |-> LowerChar(s[i])]

\* s.replace(/[-. ]/g, '')
StripPunct(s) == SelectSeq(s, LAMBDA c : c \notin {"-", ".", " "})

\* hay.includes(needle)
Includes(hay, needle) ==
    \E i \in 0..(Len(hay) - Len(needle)) : SubSeq(hay, i + 1, i + Len(needle)) = needle

\* s.startsWith(prefix)
StartsWith(s, prefix) ==
    Len(s) >= Len(prefix) /\ SubSeq(s, 1, Len(prefix)) = prefix

Last(s) == s[Len(s)]

-----------------------------------------------------------------------------
(* JavaScript objects used as mappings: ordered lists of entries *)

EmptyMap == <<>>

Keys(m) == [i \in 1..Len(m) |-> m[i].k]

Values(m) == [i \in 1..Len(m) |-> m[i].v]

Has(m, k) == \E i \in 1..Len(m) : m[i].k = k

Get(m, k) == m[CHOOSE i \in 1..Len(m) : m[i].k = k].v

\* m[k] = v: an existing key keeps its position, a new key is appended
Put(m, k, v) ==
    IF Has(m, k)
    THEN [i \in 1..Len(m) |-> IF m[i].k = k THEN [k |-> k, v |-> v] ELSE m[i]]
    ELSE Append(m, [k |-> k, v |-> v])

RECURSIVE PutAll(_, _)
PutAll(m, entries) ==
    IF entries = <<>> THEN m
    ELSE PutAll(Put(m, Head(entries).k, Head(entries).v), Tail(entries))

\* { ...a, ...b }
Spread(a, b) == PutAll(a, b)

RECURSIVE SpreadAll(_)
SpreadAll(ms) == IF ms = <<>> THEN EmptyMap ELSE Spread(Head(ms), SpreadAll(Tail(ms)))

RECURSIVE Flatten(_)
Flatten(ss) == IF ss = <<>> THEN <<>> ELSE Head(ss) \o Flatten(Tail(ss))

\* An optional value: <<>> is undefined, <<x>> is x
None == <<>>

Some(x) == <<x>>

IsSome(o) == Len(o) = 1

TheValue(o) == o[1]

-----------------------------------------------------------------------------
(* Text constants: path segments, names and identifiers of the modelled server *)

SegMdr == <<"m","d","r">>

SegProducts == <<"p","r","o","d","u","c","t","s">>

SegAdam == <<"a","d","a","m">>

SegAdamig11 == <<"a","d","a","m","i","g","-","1","-","1">>

SegSdtmig == <<"s","d","t","m","i","g">>

SegV32 == <<"3","-","2">>

SegClasses == <<"c","l","a","s","s","e","s">>

SegVarsets == <<"v","a","r","s","e","t","s">>

SegVariables == <<"v","a","r","i","a","b","l","e","s">>

TxtDataStructures == <<"d","a","t","a","S","t","r","u","c","t","u","r","e","s">>

TxtDatasets == <<"d","a","t","a","s","e","t","s">>

TxtDomains == <<"d","o","m","a","i","n","s">>

TxtCodelists == <<"c","o","d","e","l","i","s","t","s">>

TxtADaM == <<"A","D","a","M">>

TxtSDTM == <<"S","D","T","M">>

TxtSEND == <<"S","E","N","D">>

TxtCDASH == <<"C","D","A","S","H">>

PfxAdam == <<"a","d","a","m">>

PfxSdtm == <<"s","d","t","m">>

PfxSend == <<"s","e","n","d">>

PfxCdash == <<"c","d","a","s","h">>

NameADSL == <<"A","D","S","L">>

NameBDS == <<"B","D","S">>

NameAE == <<"A","E">>

NameCE == <<"C","E">>

NameDM == <<"D","M">>

NameXX == <<"X","X">>

ClsEvents == <<"E","v","e","n","t","s">>

ClsSpecialPurpose == <<"S","p","e","c","i","a","l","P","u","r","p","o","s","e">>

VsIdentifier == <<"I","d","e","n","t","i","f","i","e","r">>

VsTiming == <<"T","i","m","i","n","g">>

ItemSTUDYID == <<"S","T","U","D","Y","I","D">>

ItemAVISIT == <<"A","V","I","S","I","T">>

ItemAETERM == <<"A","E","T","E","R","M">>

ItemCETERM == <<"C","E","T","E","R","M">>

ItemUSUBJID == <<"U","S","U","B","J","I","D">>

SegAdam21 == <<"a","d","a","m","-","2","-","1">>

SegSdtm == <<"s","d","t","m">>

SegV14 == <<"1","-","4">>

Digits == {"0","1","2","3","4","5","6","7","8","9"}

Undefined == "undefined"

-----------------------------------------------------------------------------
(* The modelled server: what the CDISC Library API answers *)

CatalogHref == <<SegMdr, SegProducts>>

HrefAdamig11 == <<SegMdr, SegAdam, SegAdamig11>>

HrefSdtmig32 == <<SegMdr, SegSdtmig, SegV32>>

IdAdamig11 == SegAdamig11

IdSdtmig32 == SegSdtmig \o <<"-">> \o SegV32

\* An item of an item group, as the API lists it
VariableRaw(groupHref, name, label) ==
    [name |-> name, label |-> label,
     links |-> [self |-> [href |-> groupHref \o <<SegVariables, name>>, type |-> "Variable"]]]

AdslHref == HrefAdamig11 \o <<ToLowerCase(TxtDataStructures), NameADSL>>

BdsHref == HrefAdamig11 \o <<ToLowerCase(TxtDataStructures), NameBDS>>

AdslRaw ==
    [name |-> NameADSL, label |-> "Subject-Level Analysis Dataset",
     description |-> "One record per subject", className |-> "ADSL",
     links |-> [self |-> [href |-> AdslHref]],
     analysisVariableSets |-> <<
        [name |-> VsIdentifier, label |-> "Identifier Variables",
         links |-> [self |-> [href |-> AdslHref \o <<SegVarsets, VsIdentifier>>]],
         analysisVariables |-> << VariableRaw(AdslHref, ItemSTUDYID, "Study Identifier") >>] >>]

BdsRaw ==
    [name |-> NameBDS, label |-> "Basic Data Structure",
     description |-> "One or more records per subject", className |-> "BDS",
     links |-> [self |-> [href |-> BdsHref]],
     analysisVariableSets |-> <<
        [name |-> VsTiming, label |-> "Timing Variables",
         links |-> [self |-> [href |-> BdsHref \o <<SegVarsets, VsTiming>>]],
         analysisVariables |-> << VariableRaw(BdsHref, ItemAVISIT, "Analysis Visit") >>] >>]

ClassHref(cls) == HrefSdtmig32 \o <<SegClasses, cls>>

DatasetHref(name) == HrefSdtmig32 \o <<TxtDatasets, name>>

DatasetRaw(name, label, cls, item) ==
    [name |-> name, label |-> label, description |-> "dataset",
     links |-> [self |-> [href |-> DatasetHref(name), type |-> "SDTM Dataset"],
                parentClass |-> [href |-> ClassHref(cls), title |-> "class", type |-> "Class"]],
     datasetVariables |-> << VariableRaw(DatasetHref(name), item, "variable") >>]

AeRaw == DatasetRaw(NameAE, "Adverse Events", ClsEvents, ItemAETERM)

CeRaw == DatasetRaw(NameCE, "Clinical Events", ClsEvents, ItemCETERM)

DmRaw == DatasetRaw(NameDM, "Demographics", ClsSpecialPurpose, ItemUSUBJID)

\* GET {product href}: the product with its whole subtree
Adamig11Raw ==
    [name |-> "ADaMIG v1.1", description |-> "ADaM Implementation Guide", source |-> "CDISC",
     effectiveDate |-> "2016-02-12", registrationStatus |-> "Final", version |-> <<"1",".","1">>,
     dataStructures |-> <<AdslRaw, BdsRaw>>,
     links |-> << [k |-> "self", v |-> [href |-> HrefAdamig11]],
                  [k |-> "model", v |-> [href |-> <<SegMdr, SegAdam, SegAdam21>>]] >>]

Sdtmig32Raw ==
    [name |-> "SDTMIG v3.2", description |-> "SDTM Implementation Guide", source |-> "CDISC",
     effectiveDate |-> "2013-11-26", registrationStatus |-> "Final", version |-> <<"3",".","2">>,
     classes |-> <<
        [name |-> <<"S","p","e","c","i","a","l"," ","P","u","r","p","o","s","e">>,
         label |-> "Special Purpose", ordinal |-> "1",
         description |-> "class",
         links |-> [self |-> [href |-> ClassHref(ClsSpecialPurpose)]],
         datasets |-> <<DmRaw>>],
        [name |-> ClsEvents, label |-> "Events", ordinal |-> "2", description |-> "class",
         links |-> [self |-> [href |-> ClassHref(ClsEvents)]],
         datasets |-> <<AeRaw, CeRaw>>] >>,
     links |-> << [k |-> "self", v |-> [href |-> HrefSdtmig32]],
                  [k |-> "model", v |-> [href |-> <<SegMdr, SegSdtm, SegV14>>]] >>]

\* GET /mdr/products: the catalog of product classes, groups and products
CatalogRaw ==
    [links |-> <<
        [k |-> "self", v |-> [href |-> CatalogHref]],
        [k |-> "data-analysis", v |-> [links |-> <<
            [k |-> "self", v |-> <<>>],
            [k |-> "adam", v |-> << [href |-> HrefAdamig11, title |-> "ADaMIG v1.1",
                                     type |-> "Implementation Guide"] >>] >>]],
        [k |-> "data-tabulation", v |-> [links |-> <<
            [k |-> "self", v |-> <<>>],
            [k |-> "sdtmig", v |-> << [href |-> HrefSdtmig32, title |-> "SDTMIG v3.2",
                                       type |-> "Implementation Guide"] >>] >>]] >>]

\* GET {product href}/{item group type}: the lightweight listing of a product's item groups
ListingRaw(typeKey, groups) ==
    [links |-> << [k |-> <<"s","e","l","f">>, v |-> <<>>],
                  [k |-> typeKey,
                   v |-> [i \in 1..Len(groups) |->
                            [href |-> groups[i].links.self.href, title |-> groups[i].label]]] >>]

ServerItemGroups(productHref) ==
    IF productHref = HrefAdamig11 THEN <<AdslRaw, BdsRaw>>
    ELSE IF productHref = HrefSdtmig32 THEN <<DmRaw, AeRaw, CeRaw>>
    ELSE <<>>

ServerTypeKey(productHref) ==
    IF productHref = HrefAdamig11 THEN TxtDataStructures ELSE TxtDatasets

ServerProductHrefs == {HrefAdamig11, HrefSdtmig32}

\* The JSON body the server holds for an endpoint: <<>> (no such resource) or <<body>>
ServerBody(href) ==
    IF href = CatalogHref THEN Some(CatalogRaw)
    ELSE IF href = HrefAdamig11 THEN Some(Adamig11Raw)
    ELSE IF href = HrefSdtmig32 THEN Some(Sdtmig32Raw)
    ELSE IF Len(href) = 4 /\ SubSeq(href, 1, 3) \in ServerProductHrefs
            /\ href[4] = ToLowerCase(ServerTypeKey(SubSeq(href, 1, 3)))
         THEN Some(ListingRaw(ServerTypeKey(SubSeq(href, 1, 3)),
                              ServerItemGroups(SubSeq(href, 1, 3))))
    ELSE IF Len(href) = 5 /\ SubSeq(href, 1, 3) \in ServerProductHrefs
            /\ href[4] = ToLowerCase(ServerTypeKey(SubSeq(href, 1, 3)))
            /\ \E i \in DOMAIN ServerItemGroups(SubSeq(href, 1, 3)) :
                   ServerItemGroups(SubSeq(href, 1, 3))[i].name = href[5]
         THEN LET gs == ServerItemGroups(SubSeq(href, 1, 3))
              IN  Some(gs[CHOOSE i \in DOMAIN gs : gs[i].name = href[5]])
    ELSE None

-----------------------------------------------------------------------------
(* Raw JSON access *)

\* Object.keys(raw).length === 0, the blank object apiRequest returns on failure
EmptyObject == <<>>

IsEmptyObject(raw) == DOMAIN raw = {}

\* raw.hasOwnProperty(f)
HasOwn(raw, f) == f \in DOMAIN raw

\* raw.f, a scalar: undefined when the property is absent
Field(raw, f) == IF HasOwn(raw, f) THEN raw[f] ELSE Undefined

\* raw.f, a text: None when the property is absent
TextField(raw, f) == IF HasOwn(raw, f) THEN Some(raw[f]) ELSE None

\* raw?._links?.self ? raw._links.self.href : undefined
SelfHref(raw) ==
    IF HasOwn(raw, "links") /\ HasOwn(raw.links, "self") THEN Some(raw.links.self.href) ELSE None

\* raw?._links?.self?.type
SelfType(raw) ==
    IF HasOwn(raw, "links") /\ HasOwn(raw.links, "self") /\ HasOwn(raw.links.self, "type")
    THEN Some(raw.links.self.type) ELSE None

-----------------------------------------------------------------------------
(* Item: Variable and Field *)

TypeSegments == {ToLowerCase(TxtDataStructures), TxtDatasets, TxtDomains}

\* href.replace(/.*\/(?:datastructures|datasets|domains)\/(.*?)\/.*\/(.*)$/, '$1.$2') when the
\* href holds such a segment, href.replace(/.*\/(.*)$/, '$1') otherwise
ItemIdFromHref(href) ==
    LET hits == {i \in 1..Len(href) : href[i] \in TypeSegments /\ i + 3 <= Len(href)}
    IN  IF hits # {}
        THEN LET i == CHOOSE j \in hits : \A h \in hits : h <= j
             IN  href[i + 1] \o <<".">> \o Last(href)
        ELSE Last(href)

\* new Variable({ name, href, coreObject }) followed by parseResponse(itemRaw)
ParseItem(itemRaw) ==
    LET href == SelfHref(itemRaw)
    IN  [id    |-> IF IsSome(href) THEN Some(ItemIdFromHref(TheValue(href))) ELSE None,
         name  |-> itemRaw.name,
         label |-> Field(itemRaw, "label"),
         type  |-> SelfType(itemRaw),
         href  |-> href]

-----------------------------------------------------------------------------
(* ItemGroup: Dataset, Domain, AnalysisVariableSet *)

\* ItemGroup constructor: name falls back to the last href segment, id to the name
NewItemGroup(class, itemType, id, name, href) ==
    LET theName == IF IsSome(name) /\ TheValue(name) # <<>> THEN TheValue(name)
                   ELSE Last(TheValue(href))
    IN  [class    |-> class,
         itemType |-> itemType,
         name     |-> theName,
         id       |-> IF IsSome(id) /\ TheValue(id) # <<>> THEN TheValue(id) ELSE theName,
         label    |-> Undefined,
         description |-> Undefined,
         type     |-> None,
         href     |-> href,
         items    |-> EmptyMap]

\* ItemGroup.parseItemGroupResponse
ParseItemGroupResponse(ig, itemRaw) ==
    LET parsed == IF HasOwn(itemRaw, ig.itemType)
                  THEN [i \in 1..Len(itemRaw[ig.itemType]) |->
                          LET item == ParseItem(itemRaw[ig.itemType][i])
                          IN  [k |-> item.id, v |-> item]]
                  ELSE <<>>
    IN  [ig EXCEPT !.name = itemRaw.name,
                   !.label = Field(itemRaw, "label"),
                   !.type = IF IsSome(SelfType(itemRaw)) THEN SelfType(itemRaw) ELSE @,
                   !.items = PutAll(EmptyMap, parsed)]

NewDataset(id, name, href) == NewItemGroup("Dataset", "datasetVariables", id, name, href)

\* Dataset.parseResponse, Domain.parseResponse (without scenarios),
\* AnalysisVariableSet.parseResponse
ParseGroupResponse(ig, raw) ==
    IF ig.class = "Dataset"
    THEN [ParseItemGroupResponse(ig, raw) EXCEPT !.description = Field(raw, "description")]
    ELSE ParseItemGroupResponse(ig, raw)

NewDomain(id, name, href) == NewItemGroup("Domain", "fields", id, name, href)

NewAnalysisVariableSet(id, name, href) ==
    NewItemGroup("AnalysisVariableSet", "analysisVariables", id, name, href)

\* ItemGroup.getItems (no scenarios are modelled)
ItemGroupGetItems(ig) ==
    PutAll(EmptyMap, [i \in 1..Len(ig.items) |-> [k |-> ig.items[i].v.id, v |-> ig.items[i].v]])

-----------------------------------------------------------------------------
(* DataStructure *)

NewDataStructure(name, href) ==
    [class |-> "DataStructure",
     id |-> Last(href),
     name |-> name,
     label |-> Undefined,
     description |-> Undefined,
     className |-> Undefined,
     analysisVariableSets |-> None,
     href |-> Some(href)]

\* One entry of analysisVariableSets, as DataStructure.parseResponse builds it
ParseAnalysisVariableSet(avsRaw) ==
    LET href == SelfHref(avsRaw)
        id   == IF IsSome(href) /\ Last(TheValue(href)) # <<>> THEN Last(TheValue(href))
                ELSE avsRaw.name
    IN  [k |-> id,
         v |-> ParseGroupResponse(
                   NewAnalysisVariableSet(Some(id), Some(avsRaw.name), href), avsRaw)]

\* DataStructure.parseResponse
ParseDataStructureResponse(ds, dsRaw) ==
    [ds EXCEPT !.name = dsRaw.name,
               !.label = IF HasOwn(dsRaw, "label") THEN dsRaw.label ELSE Field(dsRaw, "title"),
               !.description = Field(dsRaw, "description"),
               !.className = Field(dsRaw, "className"),
               !.analysisVariableSets =
                   Some(PutAll(EmptyMap,
                        IF HasOwn(dsRaw, "analysisVariableSets")
                        THEN [i \in 1..Len(dsRaw.analysisVariableSets) |->
                                ParseAnalysisVariableSet(dsRaw.analysisVariableSets[i])]
                        ELSE <<>>))]

\* DataStructure.getItems
DataStructureGetItems(ds) ==
    IF IsSome(ds.analysisVariableSets)
    THEN SpreadAll([i \in 1..Len(TheValue(ds.analysisVariableSets)) |->
                      ItemGroupGetItems(TheValue(ds.analysisVariableSets)[i].v)])
    ELSE EmptyMap

-----------------------------------------------------------------------------
(* DataClass *)

\* DataClass constructor: the id is the last segment of the href
NewDataClass(name, href) ==
    [class |-> "DataClass",
     id |-> Last(href),
     ordinal |-> Undefined,
     name |-> name,
     label |-> Undefined,
     description |-> Undefined,
     datasets |-> None,
     domains |-> None,
     classVariables |-> None,
     cdashModelFields |-> None,
     href |-> Some(href)]

\* One entry of datasets / domains, as DataClass.parseResponse builds it
ParseClassItemGroup(class, groupRaw) ==
    LET href == SelfHref(groupRaw)
        id   == IF IsSome(href) /\ Last(TheValue(href)) # <<>> THEN Last(TheValue(href))
                ELSE groupRaw.name
        new  == IF class = "Dataset" THEN NewDataset(Some(id), Some(groupRaw.name), href)
                ELSE NewDomain(Some(id), Some(groupRaw.name), href)
    IN  [k |-> id, v |-> ParseGroupResponse(new, groupRaw)]

\* The class-level items (classVariables, cdashModelFields)
ParseClassItems(itemsRaw) ==
    PutAll(EmptyMap, [i \in 1..Len(itemsRaw) |->
                        [k |-> ParseItem(itemsRaw[i]).id, v |-> ParseItem(itemsRaw[i])]])

\* DataClass.parseResponse
ParseDataClassResponse(dc, dcRaw, domainsRaw) ==
    LET href == IF ~IsSome(dc.href) THEN SelfHref(dcRaw) ELSE dc.href
        rawDomains == IF HasOwn(dcRaw, "domains") THEN dcRaw.domains ELSE TheValue(domainsRaw)
        ofThisClass == SelectSeq(rawDomains,
                           LAMBDA d : /\ HasOwn(d, "links")
                                      /\ HasOwn(d.links, "parentClass")
                                      /\ Some(d.links.parentClass.href) = href)
    IN  [dc EXCEPT !.name = TextField(dcRaw, "name"),
                   !.ordinal = Field(dcRaw, "ordinal"),
                   !.label = Field(dcRaw, "label"),
                   !.description = Field(dcRaw, "description"),
                   !.href = href,
                   !.datasets = IF HasOwn(dcRaw, "datasets")
                                THEN Some(PutAll(EmptyMap, [i \in 1..Len(dcRaw.datasets) |->
                                            ParseClassItemGroup("Dataset", dcRaw.datasets[i])]))
                                ELSE @,
                   !.domains = IF HasOwn(dcRaw, "domains") \/ IsSome(domainsRaw)
                               THEN Some(PutAll(EmptyMap, [i \in 1..Len(ofThisClass) |->
                                            ParseClassItemGroup("Domain", ofThisClass[i])]))
                               ELSE @,
                   !.classVariables = IF HasOwn(dcRaw, "classVariables")
                                      THEN Some(ParseClassItems(dcRaw.classVariables))
                                      ELSE @,
                   !.cdashModelFields = IF HasOwn(dcRaw, "cdashModelFields")
                                        THEN Some(ParseClassItems(dcRaw.cdashModelFields))
                                        ELSE @]

\* DataClass.getItemGroups: the domains when there are any, else the datasets
DataClassGetItemGroups(dc) ==
    IF IsSome(dc.domains) /\ Len(TheValue(dc.domains)) > 0 THEN TheValue(dc.domains)
    ELSE IF IsSome(dc.datasets) /\ Len(TheValue(dc.datasets)) > 0 THEN TheValue(dc.datasets)
    ELSE EmptyMap

-----------------------------------------------------------------------------
(* Product *)

SegCt == <<"c","t">>

Truthy(x) == x # Undefined /\ x # ""

TruthyText(o) == IsSome(o) /\ TheValue(o) # <<>>

\* href.startsWith('/mdr/ct/') || href.startsWith('/mdr/adam/')
IsCtOrAdamHref(href) == Len(href) >= 3 /\ href[1] = SegMdr /\ href[2] \in {SegCt, SegAdam}

\* The id a Product or a dependency derives from its href
ProductIdFromHref(href) ==
    IF IsCtOrAdamHref(href) THEN Last(href)
    ELSE IF Len(href) >= 3 THEN href[Len(href) - 1] \o <<"-">> \o Last(href)
    ELSE Flatten(href)

\* /(\d+-?)+$/.test(href)
EndsWithVersion(href) ==
    LET s == Last(href)
    IN  /\ Len(s) > 0
        /\ \/ s[Len(s)] \in Digits
           \/ s[Len(s)] = "-" /\ Len(s) > 1 /\ s[Len(s) - 1] \in Digits

\* href.replace(/.*?(\d[\d-]*$)/, '$1')
VersionRun(href) ==
    LET s == Last(href)
        starts == {i \in 1..Len(s) : /\ s[i] \in Digits
                                     /\ \A j \in i..Len(s) : s[j] \in Digits \union {"-"}}
    IN  SubSeq(s, CHOOSE i \in starts : \A j \in starts : i <= j, Len(s))

\* .replace(/-/g, '.')
DashesToDots(s) == [i \in 1..Len(s) |-> IF s[i] = "-" THEN "." ELSE s[i]]

\* The parameters of new Product({...}) when none is given
NoProductParameters ==
    [id |-> None, name |-> Undefined, title |-> Undefined, label |-> Undefined,
     type |-> Undefined, description |-> Undefined, source |-> Undefined,
     effectiveDate |-> Undefined, registrationStatus |-> Undefined, version |-> None,
     dataClasses |-> None, dataStructures |-> None, codelists |-> None, href |-> None,
     model |-> None, datasetType |-> None, fullyLoaded |-> FALSE, dependencies |-> None]

\* Product constructor.  obj is the new object; fresh names the child mappings it creates
\* as new empty objects
NewProduct(p) ==
    LET id == IF TruthyText(p.id) THEN p.id
              ELSE IF IsSome(p.href) THEN Some(ProductIdFromHref(TheValue(p.href)))
              ELSE None
        version == IF TruthyText(p.version) THEN p.version
                   ELSE IF IsSome(p.href) /\ EndsWithVersion(TheValue(p.href))
                   THEN IF p.type = "Terminology" THEN Some(VersionRun(TheValue(p.href)))
                        ELSE Some(DashesToDots(VersionRun(TheValue(p.href))))
                   ELSE None
        model == IF TruthyText(p.model) THEN p.model
                 ELSE IF StartsWith(TheValue(id), PfxAdam) THEN Some(TxtADaM)
                 ELSE IF StartsWith(TheValue(id), PfxSdtm) THEN Some(TxtSDTM)
                 ELSE IF StartsWith(TheValue(id), PfxSend) THEN Some(TxtSEND)
                 ELSE IF StartsWith(TheValue(id), PfxCdash) THEN Some(TxtCDASH)
                 ELSE IF p.type = "Terminology" THEN Some(TxtSDTM)
                 ELSE None
        datasetType == IF TruthyText(p.datasetType) THEN p.datasetType
                       ELSE IF p.type = "Terminology" THEN Some(TxtCodelists)
                       ELSE IF model = Some(TxtADaM) THEN Some(TxtDataStructures)
                       ELSE IF model = Some(TxtSDTM) THEN Some(TxtDatasets)
                       ELSE IF model = Some(TxtSEND) THEN Some(TxtDatasets)
                       ELSE IF model = Some(TxtCDASH) THEN Some(TxtDomains)
                       ELSE None
        fresh == IF datasetType = Some(TxtCodelists) THEN {"codelists"}
                 ELSE (IF model = Some(TxtADaM) /\ ~IsSome(p.dataStructures)
                       THEN {"dataStructures"} ELSE {})
                      \union
                      (IF model \in {Some(TxtSDTM), Some(TxtSEND), Some(TxtCDASH)}
                          /\ ~IsSome(p.dataClasses)
                       THEN {"dataClasses"} ELSE {})
    IN  [obj |-> [id |-> TheValue(id),
                  name |-> p.name,
                  label |-> IF Truthy(p.title) THEN p.title ELSE p.label,
                  type |-> p.type,
                  description |-> p.description,
                  source |-> p.source,
                  effectiveDate |-> p.effectiveDate,
                  registrationStatus |-> p.registrationStatus,
                  version |-> version,
                  href |-> p.href,
                  dataStructures |-> p.dataStructures,
                  dataClasses |-> p.dataClasses,
                  codelists |-> p.codelists,
                  model |-> model,
                  datasetType |-> datasetType,
                  fullyLoaded |-> p.fullyLoaded,
                  dependencies |-> p.dependencies],
         fresh |-> fresh]

\* { ...product }: the own properties of a Product object as constructor parameters
ProductAsParameters(prod) ==
    [NoProductParameters EXCEPT
        !.id = Some(prod.id), !.name = prod.name, !.label = prod.label, !.type = prod.type,
        !.description = prod.description, !.source = prod.source,
        !.effectiveDate = prod.effectiveDate,
        !.registrationStatus = prod.registrationStatus, !.version = prod.version,
        !.dataClasses = prod.dataClasses, !.dataStructures = prod.dataStructures,
        !.codelists = prod.codelists, !.href = prod.href, !.model = prod.model,
        !.datasetType = prod.datasetType, !.fullyLoaded = prod.fullyLoaded,
        !.dependencies = prod.dependencies]

ParseProductDataStructureStub(dsRaw) ==
    [k |-> Last(TheValue(SelfHref(dsRaw))),
     v |-> [NewDataStructure(dsRaw.name, TheValue(SelfHref(dsRaw)))
               EXCEPT !.analysisVariableSets = Some(EmptyMap)]]

\* One entry of dataStructures, as Product.parseResponse builds it
ParseProductDataStructure(dsRaw) ==
    LET ds == ParseDataStructureResponse(
                  NewDataStructure(dsRaw.name, TheValue(SelfHref(dsRaw))), dsRaw)
    IN  [k |-> ds.id, v |-> ds]

\* One entry of dataClasses, as Product.parseResponse builds it
ParseProductDataClass(dcRaw, pRaw) ==
    LET dc == ParseDataClassResponse(
                  NewDataClass(TextField(dcRaw, "name"), TheValue(SelfHref(dcRaw))), dcRaw,
                  IF HasOwn(pRaw, "domains") THEN Some(pRaw.domains) ELSE None)
    IN  [k |-> dc.id, v |-> dc]

\* The dependencies Product.parseResponse derives from pRaw._links
ParseDependencies(links) ==
    LET others == SelectSeq(links, LAMBDA e : e.k # "self")
    IN  PutAll(EmptyMap, [i \in 1..Len(others) |->
                  [k |-> others[i].k,
                   v |-> [href |-> others[i].v.href,
                          id |-> ProductIdFromHref(others[i].v.href)]]])

\* The scalar fields Product.parseResponse assigns
ParseProductScalars(obj, pRaw) ==
    [obj EXCEPT !.name = Field(pRaw, "name"),
                !.description = Field(pRaw, "description"),
                !.source = Field(pRaw, "source"),
                !.effectiveDate = Field(pRaw, "effectiveDate"),
                !.registrationStatus = Field(pRaw, "registrationStatus"),
                !.version = TextField(pRaw, "version"),
                !.dependencies = IF HasOwn(pRaw, "links")
                                 THEN Some(ParseDependencies(pRaw.links)) ELSE @]

ParseProductChildrenAlways(pRaw) ==
    [dataStructures |-> IF HasOwn(pRaw, "dataStructures")
                        THEN Some(PutAll(EmptyMap, [i \in 1..Len(pRaw.dataStructures) |->
                                    ParseProductDataStructure(pRaw.dataStructures[i])]))
                        ELSE Some(EmptyMap),
     dataClasses |-> IF HasOwn(pRaw, "classes")
                     THEN Some(PutAll(EmptyMap, [i \in 1..Len(pRaw.classes) |->
                                 ParseProductDataClass(pRaw.classes[i], pRaw)]))
                     ELSE Some(EmptyMap)]

\* The child mappings Product.parseResponse builds anew: None where the response has no
\* such collection and the property is left as it is
ParseProductChildren(pRaw) ==
    [dataStructures |-> IF HasOwn(pRaw, "dataStructures")
                        THEN Some(PutAll(EmptyMap, [i \in 1..Len(pRaw.dataStructures) |->
                                    ParseProductDataStructure(pRaw.dataStructures[i])]))
                        ELSE None,
     dataClasses |-> IF HasOwn(pRaw, "classes")
                     THEN Some(PutAll(EmptyMap, [i \in 1..Len(pRaw.classes) |->
                                 ParseProductDataClass(pRaw.classes[i], pRaw)]))
                     ELSE None]

-----------------------------------------------------------------------------
(* Alias resolution *)

AliasAdamig11 == <<"a","d","a","m","i","g","1","1">>

\* The aliases a program asks the catalog for
Aliases == {AliasAdamig11}

\* productList.find(test): the first element that passes, or None
FindFirst(list, Test(_)) ==
    IF \E i \in 1..Len(list) : Test(list[i])
    THEN Some(list[CHOOSE i \in 1..Len(list) :
                     Test(list[i]) /\ \A j \in 1..(i - 1) : ~Test(list[j])])
    ELSE None

\* A resolution that stops after the exact comparison
GroupGetProductIdByAliasExactOnly(productList, alias) ==
    FindFirst(productList, LAMBDA id : ToLowerCase(alias) = ToLowerCase(id))

\* A resolution that falls back on the first id of the group
GroupGetProductIdByAliasOrFirst(productList, alias) ==
    IF IsSome(GroupGetProductIdByAliasExactOnly(productList, alias)) \/ productList = <<>>
    THEN GroupGetProductIdByAliasExactOnly(productList, alias)
    ELSE Some(Head(productList))

\* ProductGroup.getProductIdByAlias over the group's list of product ids
GroupGetProductIdByAlias(productList, alias) ==
    LET exact == FindFirst(productList, LAMBDA id : ToLowerCase(alias) = ToLowerCase(id))
        stripped == FindFirst(productList, LAMBDA id :
                        StripPunct(ToLowerCase(alias)) = StripPunct(ToLowerCase(id)))
        substring == FindFirst(productList, LAMBDA id :
                        Includes(StripPunct(ToLowerCase(id)), StripPunct(ToLowerCase(alias))))
    IN  IF TruthyText(exact) THEN exact
        ELSE IF TruthyText(stripped) THEN stripped
        ELSE IF TruthyText(substring) THEN substring
        ELSE None

\* ProductGroup.getProductList: the ids of the products of a group
GroupProductList(pg, ps) == [i \in 1..Len(pg.products) |-> ps[pg.products[i].v].id]

\* ProductClass.getProductIdByAlias: the first group that resolves the alias
ClassGetProductIdByAlias(pc, ps, alias) ==
    LET r == FindFirst(pc.productGroups, LAMBDA e :
                 IsSome(GroupGetProductIdByAlias(GroupProductList(e.v, ps), alias)))
    IN  IF IsSome(r)
        THEN Some([productGroupId |-> TheValue(r).k,
                   productId |-> TheValue(GroupGetProductIdByAlias(
                                     GroupProductList(TheValue(r).v, ps), alias))])
        ELSE None

\* The synchronous part of CdiscLibrary.getProductIdByAlias, over a resident catalog
RootGetProductIdByAlias(catalog, ps, alias) ==
    LET r == FindFirst(catalog, LAMBDA e : IsSome(ClassGetProductIdByAlias(e.v, ps, alias)))
    IN  IF IsSome(r)
        THEN LET res == TheValue(ClassGetProductIdByAlias(TheValue(r).v, ps, alias))
             IN  Some([productClassId |-> TheValue(r).k,
                       productGroupId |-> res.productGroupId,
                       productId |-> res.productId])
        ELSE None

-----------------------------------------------------------------------------
(* The heaps *)

\* The reference a new object gets: the least one not in use
FreshRef(heap) ==
    CHOOSE n \in 1..(Cardinality(DOMAIN heap) + 1) :
        n \notin DOMAIN heap /\ \A m \in 1..(n - 1) : m \in DOMAIN heap

Restrict(heap, refs) == [r \in (DOMAIN heap) \intersect refs |-> heap[r]]

EmptyHeap == <<>>

\* this[field] = {} in a constructor: a new empty mapping, when the constructor creates it
AllocChild(s, field, need) ==
    IF need
    THEN [childMaps |-> s.childMaps @@ (FreshRef(s.childMaps) :> EmptyMap),
          obj |-> [s.obj EXCEPT ![field] = Some(FreshRef(s.childMaps))]]
    ELSE s

\* The new object gets its reference
PlaceProduct(ps, s) ==
    [products |-> ps @@ (FreshRef(ps) :> s.obj), childMaps |-> s.childMaps,
     ref |-> FreshRef(ps)]

\* Give the object a constructor returned its new empty child mappings and a reference
AllocProduct(ps, ms, ctor) ==
    PlaceProduct(ps,
        AllocChild(
            AllocChild(
                AllocChild([childMaps |-> ms, obj |-> ctor.obj],
                           "dataStructures", "dataStructures" \in ctor.fresh),
                "dataClasses", "dataClasses" \in ctor.fresh),
            "codelists", "codelists" \in ctor.fresh))

RECURSIVE AllocProducts(_, _, _, _)
RECURSIVE AllocNext(_, _, _)
AllocProducts(ps, ms, ctors, refs) ==
    IF ctors = <<>> THEN [products |-> ps, childMaps |-> ms, refs |-> refs]
    ELSE AllocNext(AllocProduct(ps, ms, Head(ctors)), Tail(ctors), refs)

AllocNext(a, ctors, refs) == AllocProducts(a.products, a.childMaps, ctors, Append(refs, a.ref))

\* this.dataStructures of a product, as a mapping
DataStructuresOf(prod, ms) == ms[TheValue(prod.dataStructures)]

DataClassesOf(prod, ms) == ms[TheValue(prod.dataClasses)]

\* Product.getCurrentItemGroups
GetCurrentItemGroups(prod, ms) ==
    IF IsSome(prod.dataStructures) THEN DataStructuresOf(prod, ms)
    ELSE IF IsSome(prod.dataClasses)
    THEN SpreadAll([i \in 1..Len(DataClassesOf(prod, ms)) |->
                      DataClassGetItemGroups(DataClassesOf(prod, ms)[i].v)])
    ELSE EmptyMap

\* The client state an operation works on
World ==
    [productClasses |-> productClasses, catalogs |-> catalogs, products |-> products,
     childMaps |-> childMaps]

-----------------------------------------------------------------------------
(* The catalog: CdiscLibrary.getProductClasses *)

\* The entries of a _links object other than self
OtherLinks(links) == SelectSeq(links, LAMBDA e : e.k # "self")

\* All product listings of the catalog response, in document order, with their class and group
CatalogListings(dataRaw) ==
    Flatten([i \in 1..Len(OtherLinks(dataRaw.links)) |->
        LET pc == OtherLinks(dataRaw.links)[i]
        IN  IF HasOwn(pc.v, "links")
            THEN Flatten([j \in 1..Len(OtherLinks(pc.v.links)) |->
                    LET pg == OtherLinks(pc.v.links)[j]
                    IN  [n \in 1..Len(pg.v) |-> [pc |-> pc.k, pg |-> pg.k, gRaw |-> pg.v[n]]]])
            ELSE <<>>])

\* new Product({ ...gRaw, coreObject }) of ProductGroup.parseResponse
NewProductFromListing(gRaw) ==
    NewProduct([NoProductParameters EXCEPT !.href = TextField(gRaw, "href"),
                                           !.title = Field(gRaw, "title"),
                                           !.type = Field(gRaw, "type")])

\* ProductGroup.parseResponse: the products of one group, by id
GroupProducts(listings, pc, pg, ps, refs) ==
    PutAll(EmptyMap,
           SelectSeq([n \in 1..Len(listings) |->
                        [k |-> ps[refs[n]].id, v |-> refs[n], pc |-> listings[n].pc,
                         pg |-> listings[n].pg]],
                     LAMBDA e : e.pc = pc /\ e.pg = pg))

\* ProductClass.parseResponse: the groups of one class
ClassGroups(listings, pc, pcRaw, ps, refs) ==
    IF HasOwn(pcRaw, "links")
    THEN PutAll(EmptyMap, [j \in 1..Len(OtherLinks(pcRaw.links)) |->
            [k |-> OtherLinks(pcRaw.links)[j].k,
             v |-> [name |-> OtherLinks(pcRaw.links)[j].k,
                    products |-> GroupProducts(listings, pc, OtherLinks(pcRaw.links)[j].k,
                                               ps, refs)]]])
    ELSE EmptyMap

\* The mapping getProductClasses builds, given the references of the products in document
\* order
BuildCatalog(listings, links, ps, refs) ==
    PutAll(EmptyMap, [i \in 1..Len(links) |->
        [k |-> links[i].k,
         v |-> [name |-> links[i].k,
                productGroups |-> ClassGroups(listings, links[i].k, links[i].v, ps, refs)]]])

\* this.productClasses = productClasses
StoreParsed(dataRaw, w, a) ==
    [w |-> [productClasses |-> Some(FreshRef(w.catalogs)),
            catalogs |-> w.catalogs @@
                (FreshRef(w.catalogs) :>
                    BuildCatalog(CatalogListings(dataRaw), OtherLinks(dataRaw.links),
                                 a.products, a.refs)),
            products |-> a.products,
            childMaps |-> a.childMaps],
     result |-> Some(FreshRef(w.catalogs))]

AllListings(listings) == [n \in 1..Len(listings) |-> NewProductFromListing(listings[n].gRaw)]

\* The body of getProductClasses after its request: the client state with the parsed catalog
\* stored, and the mapping the call returns (None: the blank mapping, which is not stored)
StoreCatalog(dataRaw, w) ==
    IF HasOwn(dataRaw, "links")
    THEN StoreParsed(dataRaw, w,
                     AllocProducts(w.products, w.childMaps,
                                   AllListings(CatalogListings(dataRaw)), <<>>))
    ELSE [w |-> w, result |-> None]

-----------------------------------------------------------------------------
(* Formatted output *)

Formats == {Undefined, "csv"}

\* { ...item } without its object-valued properties
ItemRecord(item) ==
    <<[k |-> "id", v |-> item.id], [k |-> "name", v |-> item.name],
      [k |-> "label", v |-> item.label], [k |-> "type", v |-> item.type],
      [k |-> "href", v |-> item.href]>>

\* json2csv parse: the columns are the keys of the records in order of first appearance
CsvParse(records) ==
    LET header == Keys(SpreadAll(records))
    IN  [header |-> header,
         lines |-> [i \in 1..Len(records) |->
                      [j \in 1..Len(header) |->
                         IF Has(records[i], header[j]) THEN Some(Get(records[i], header[j]))
                         ELSE None]]]

\* convertToFormat
ConvertToFormat(object, format) == IF format = "csv" THEN CsvParse(object) ELSE object

\* ItemGroup.getFormattedItems
ItemGroupGetFormattedItems(ig, format, addItemGroupId, additionalProps) ==
    LET items == Values(ItemGroupGetItems(ig))
    IN  ConvertToFormat(
            [i \in 1..Len(items) |->
                Spread(additionalProps,
                       IF addItemGroupId
                       THEN Spread(<<[k |-> "itemGroup", v |-> Some(ig.id)]>>, ItemRecord(items[i]))
                       ELSE ItemRecord(items[i]))],
            format)

\* DataStructure.getFormattedItems, when analysisVariableSets is defined
DataStructureGetFormattedItems(ds, format, addItemGroupId) ==
    LET sets == Values(TheValue(ds.analysisVariableSets))
    IN  ConvertToFormat(
            Flatten([i \in 1..Len(sets) |->
                ItemGroupGetFormattedItems(sets[i], "json", addItemGroupId,
                                           <<[k |-> "dataStructure", v |-> Some(ds.id)]>>)]),
            format)

\* getFormattedItems of whichever kind of item group the object is
GetFormattedItems(group, format, addItemGroupId) ==
    IF group.class = "DataStructure"
    THEN DataStructureGetFormattedItems(group, format, addItemGroupId)
    ELSE ItemGroupGetFormattedItems(group, format, addItemGroupId, EmptyMap)

-----------------------------------------------------------------------------
(* The transport and CoreObject.apiRequest *)

\* What the server answers to a request of the endpoint
ServerAnswer(href) ==
    IF IsSome(ServerBody(href))
    THEN [outcome |-> "ok", statusCode |-> 200, body |-> TheValue(ServerBody(href))]
    ELSE [outcome |-> "notfound", statusCode |-> 404, body |-> EmptyObject]

\* The request is rejected: no connection, time-out
TransportFailure == [outcome |-> "transport", statusCode |-> -1, body |-> EmptyObject]

Responses(href) == {ServerAnswer(href), TransportFailure}

\* CoreObject.apiRequest: the parsed body on status 200, {} on any other status and when
\* the request throws
ApiRequest(response) ==
    IF response.outcome # "transport" /\ response.statusCode = 200 THEN response.body
    ELSE EmptyObject

-----------------------------------------------------------------------------
(* Calls *)

NoResult == [kind |-> "none", val |-> <<>>]

ReturnUndefined == [kind |-> "undefined", val |-> <<>>]

ReturnNull == [kind |-> "null", val |-> <<>>]

ThrowTypeError == [kind |-> "throw", val |-> <<>>]

IdleCall ==
    [op |-> "idle", pc |-> "idle", alias |-> <<>>, basic |-> FALSE, name |-> <<>>,
     type |-> "long", format |-> Undefined, pcs |-> None, cat |-> None, pcId |-> "",
     pgId |-> "", pid |-> <<>>, prod |-> None, href |-> <<>>, reqs |-> <<>>,
     cause |-> "none", resident |-> {}, reset |-> FALSE, ret |-> NoResult]

Free(c) == calls[c].pc \in {"idle", "done"}

\* A new operation can start on caller c: calls are started on the first caller that has
\* none in flight
CanBegin(c) == opCount < MaxOps /\ Free(c) /\ (c = "c1" \/ ~Free("c1"))

NewCall(op) == [IdleCall EXCEPT !.op = op]

\* The call suspends on a request; the call record notes whether reset() is called while
\* the request is in flight
Wait(call, pc, href) ==
    [call EXCEPT !.pc = pc, !.href = href, !.reqs = Append(@, href), !.reset = FALSE]

\* The call settles; the caller keeps what it called the method on and what it returned
Finish(call, ret) ==
    [call EXCEPT !.pc = "done", !.ret = ret, !.href = <<>>, !.pcs = None, !.cat = None]

Received(call, response) == [call EXCEPT !.cause = response.outcome]

\* The answer to the request of a whole product has arrived; the call record notes the
\* names of the item groups the product holds at that moment
ReceivedLoad(call, response, current) ==
    [Received(call, response) EXCEPT !.resident = {current[i].v.name : i \in 1..Len(current)}]

OptSet(o) == IF IsSome(o) THEN {TheValue(o)} ELSE {}

\* The objects a program can still reach: through the client, through a call in flight, or
\* through what a call returned
LiveCatalogs(pcRef, cs) ==
    OptSet(pcRef) \union
    UNION {OptSet(cs[c].pcs) \union OptSet(cs[c].cat) \union
           (IF cs[c].ret.kind = "productClasses" THEN OptSet(cs[c].ret.val) ELSE {}) :
           c \in Callers}

CatalogProducts(catalog) ==
    UNION {UNION {{e.v : e \in {pg.v.products[i] : i \in 1..Len(pg.v.products)}} :
                  pg \in {pc.v.productGroups[j] : j \in 1..Len(pc.v.productGroups)}} :
           pc \in {catalog[i] : i \in 1..Len(catalog)}}

LiveProducts(liveCats, cs, cats) ==
    UNION {CatalogProducts(cats[r]) : r \in liveCats} \union
    UNION {OptSet(cs[c].prod) \union
           (IF cs[c].ret.kind = "product" THEN {cs[c].ret.val} ELSE {}) : c \in Callers}

ProductMaps(prod) ==
    OptSet(prod.dataStructures) \union OptSet(prod.dataClasses) \union OptSet(prod.codelists)

LiveMaps(livePs, ps) == UNION {ProductMaps(ps[r]) : r \in livePs}

Collect(cs, w, liveCats, livePs) ==
    /\ calls' = cs
    /\ productClasses' = w.productClasses
    /\ catalogs' = Restrict(w.catalogs, liveCats)
    /\ products' = Restrict(w.products, livePs)
    /\ childMaps' = Restrict(w.childMaps, LiveMaps(livePs, w.products))
    /\ UNCHANGED <<node, lastRaw, arg, out, graph, core>>

\* The step ends with the given calls and client state; unreachable objects are collected
CommitAll(cs, w) ==
    Collect(cs, w, LiveCatalogs(w.productClasses, cs),
            LiveProducts(LiveCatalogs(w.productClasses, cs), cs, w.catalogs))

\* The step of caller c; only the call that settled last is kept for inspection
Commit(c, call, w) ==
    CommitAll([d \in Callers |->
                  IF d = c THEN call
                  ELSE IF call.pc = "done" /\ calls[d].pc = "done" THEN IdleCall
                  ELSE calls[d]], w)

\* A call starts: it is the next operation
Begin(c, call) ==
    /\ opCount' = opCount + 1
    /\ Commit(c, call, World)

\* A step of a call in flight
Resume(c, call, w) ==
    /\ UNCHANGED opCount
    /\ Commit(c, call, w)

-----------------------------------------------------------------------------
(* Product: loading *)

\* this[field] = the mapping parseResponse built, where it built one
SetChild(w, ref, field, built) ==
    IF IsSome(built)
    THEN [w EXCEPT !.childMaps = @ @@ (FreshRef(w.childMaps) :> TheValue(built)),
                   !.products = [@ EXCEPT ![ref][field] = Some(FreshRef(w.childMaps))]]
    ELSE w

SetChildren(w, ref, ch) ==
    SetChild(SetChild(w, ref, "dataStructures", ch.dataStructures),
             ref, "dataClasses", ch.dataClasses)

SetScalars(w, ref, pRaw) ==
    [w EXCEPT !.products = [@ EXCEPT ![ref] = ParseProductScalars(@, pRaw)]]

\* Product.parseResponse on the object at ref: the scalars are assigned, and each child
\* collection the response carries becomes a new mapping of the object
ParseProductInPlace(w, ref, pRaw) ==
    SetChildren(SetScalars(w, ref, pRaw), ref, ParseProductChildren(pRaw))

\* this.fullyLoaded = true after the response has been parsed
SetFullyLoaded(w, ref, pRaw) ==
    [w EXCEPT !.products = [@ EXCEPT ![ref].fullyLoaded = TRUE]]

GroupOf(catalog, pcId, pgId) == Get(Get(catalog, pcId).productGroups, pgId)

\* pg.products[pid] = ref in the catalog object
SetProduct(catalog, pcId, pgId, pid, ref) ==
    Put(catalog, pcId,
        [Get(catalog, pcId) EXCEPT !.productGroups =
            Put(@, pgId, [GroupOf(catalog, pcId, pgId) EXCEPT !.products = Put(@, pid, ref)])])

FormattedGroups(result) ==
    Flatten([i \in 1..Len(result) |-> GetFormattedItems(result[i].v, "json", TRUE)])

\* What Product.getItemGroups returns for the mapping it has built
ItemGroupsResult(type, format, result) ==
    IF format = Undefined
    THEN [kind |-> IF type = "short" THEN "shortList" ELSE "itemGroups", val |-> result]
    ELSE IF type = "short"
    THEN [kind |-> "formatted", val |-> ConvertToFormat(Values(result), format)]
    ELSE [kind |-> "formatted", val |-> ConvertToFormat(FormattedGroups(result), format)]

ShortEntry(name, label) ==
    [k |-> name, v |-> <<[k |-> "name", v |-> name], [k |-> "label", v |-> label]>>]

ShortOf(current) ==
    PutAll(EmptyMap, [i \in 1..Len(current) |->
                        ShortEntry(current[i].v.name, current[i].v.label)])

ProductGetItemGroupsLoading(call, prod, ms) ==
    IF prod.fullyLoaded
    THEN Finish(call, ItemGroupsResult(call.type, call.format,
                                       IF call.type = "short"
                                       THEN ShortOf(GetCurrentItemGroups(prod, ms))
                                       ELSE GetCurrentItemGroups(prod, ms)))
    ELSE Wait(call, "awaitProduct", TheValue(prod.href))

\* Product.getItemGroups of the product the call is on, up to its first request
ProductGetItemGroupsOn(call, prod, ms) ==
    IF call.type # "short"
    THEN IF prod.fullyLoaded
         THEN Finish(call, ItemGroupsResult(call.type, call.format,
                                            GetCurrentItemGroups(prod, ms)))
         ELSE Wait(call, "awaitProduct", TheValue(prod.href))
    ELSE IF prod.fullyLoaded
         THEN Finish(call, ItemGroupsResult(call.type, call.format,
                                            ShortOf(GetCurrentItemGroups(prod, ms))))
         ELSE Wait(call, "awaitListing",
                   Append(TheValue(prod.href), ToLowerCase(TheValue(prod.datasetType))))

ProductGetItemGroupsBegin(call, ref, w) ==
    ProductGetItemGroupsOn([call EXCEPT !.prod = Some(ref)], w.products[ref], w.childMaps)

\* What Product.getItemGroup returns for the item group it has found (None: undefined)
ItemGroupResult(format, result) ==
    IF format = Undefined
    THEN IF IsSome(result) THEN [kind |-> "itemGroup", val |-> TheValue(result)]
         ELSE ReturnUndefined
    ELSE IF IsSome(result)
    THEN [kind |-> "formatted", val |-> GetFormattedItems(TheValue(result), format, FALSE)]
    ELSE ThrowTypeError

\* loadedDatasets[datasetId]
Loaded(loaded, match) ==
    IF IsSome(match) /\ TheValue(match).id # <<>> /\ Has(loaded, TheValue(match).id)
    THEN Some(Get(loaded, TheValue(match).id))
    ELSE None

\* The resident item group of that name, compared in upper case
FindLoaded(loaded, name) ==
    Loaded(loaded,
           FindFirst(Values(loaded), LAMBDA ds : ToUpperCase(ds.name) = ToUpperCase(name)))

PointHref(prod, name) ==
    TheValue(prod.href) \o <<ToLowerCase(TheValue(prod.datasetType)), ToUpperCase(name)>>

FoundOrRequest(call, prod, found) ==
    IF IsSome(found) \/ prod.fullyLoaded
    THEN Finish(call, ItemGroupResult(call.format, found))
    ELSE Wait(call, "awaitPoint", PointHref(prod, call.name))

\* Product.getItemGroup up to its request
ProductGetItemGroupBegin(call, ref, w) ==
    FoundOrRequest([call EXCEPT !.prod = Some(ref)], w.products[ref],
                   FindLoaded(GetCurrentItemGroups(w.products[ref], w.childMaps), call.name))

SpliceReplacing(m, id, group) == <<[k |-> id, v |-> group]>>

\* The group is added as one more entry, whatever the mapping holds under id
SpliceAppending(m, id, group) == Append(m, [k |-> id, v |-> group])

\* collection[id] = group
Splice(m, id, group) == Put(m, id, group)

\* The item group Product.getItemGroup builds from the response of its request
ParsePointResponse(prod, href, dsRaw) ==
    IF ToLowerCase(TheValue(prod.datasetType)) = ToLowerCase(TxtDataStructures)
    THEN ParseDataStructureResponse(NewDataStructure(dsRaw.name, href), dsRaw)
    ELSE IF prod.datasetType = Some(TxtDatasets)
    THEN ParseGroupResponse(NewDataset(None, Some(dsRaw.name), Some(href)), dsRaw)
    ELSE ParseGroupResponse(NewDomain(None, Some(dsRaw.name), Some(href)), dsRaw)

\* new DataClass({ ...dcRaw }) with dataClass.name = dataClass.id
ParentClass(dcRaw) == [NewDataClass(None, dcRaw.href) EXCEPT !.name = Some(Last(dcRaw.href))]

\* The item group goes into the class dc.id of the product: into the class the product has,
\* or with a new class.  threw tells that the code ran into a TypeError
SpliceIntoClass(prod, ms, dc, which, result) ==
    IF ~IsSome(prod.dataClasses) THEN [threw |-> TRUE, childMaps |-> ms]
    ELSE IF Has(DataClassesOf(prod, ms), dc.id)
    THEN IF ~IsSome(Get(DataClassesOf(prod, ms), dc.id)[which])
         THEN [threw |-> TRUE, childMaps |-> ms]
         ELSE [threw |-> FALSE,
               childMaps |-> [ms EXCEPT ![TheValue(prod.dataClasses)] =
                   Put(@, dc.id, [Get(@, dc.id) EXCEPT ![which] =
                           Some(Splice(TheValue(@), result.id, result))])]]
    ELSE [threw |-> FALSE,
          childMaps |-> [ms EXCEPT ![TheValue(prod.dataClasses)] =
              Put(@, dc.id, [dc EXCEPT ![which] = Some(<<[k |-> result.id, v |-> result]>>)])]]

\* The child mappings after Product.getItemGroup has added the fetched item group to the
\* product
SplicePoint(prod, ms, dsRaw, result) ==
    IF ToLowerCase(TheValue(prod.datasetType)) = ToLowerCase(TxtDataStructures)
    THEN IF IsSome(prod.dataStructures)
         THEN [threw |-> FALSE,
               childMaps |-> [ms EXCEPT ![TheValue(prod.dataStructures)] =
                                            Splice(@, result.id, result)]]
         ELSE [threw |-> TRUE, childMaps |-> ms]
    ELSE IF HasOwn(dsRaw, "links") /\ HasOwn(dsRaw.links, "parentClass")
    THEN SpliceIntoClass(prod, ms, ParentClass(dsRaw.links.parentClass),
                         IF prod.datasetType = Some(TxtDatasets) THEN "datasets"
                         ELSE "domains", result)
    ELSE [threw |-> FALSE, childMaps |-> ms]

-----------------------------------------------------------------------------
(* ProductGroup and CdiscLibrary: loading *)

RequestDetail(call, cat, pcId, pgId, pg, id, w) ==
    IF IsSome(id)
    THEN Wait([call EXCEPT !.cat = Some(cat), !.pcId = pcId, !.pgId = pgId,
                           !.pid = TheValue(id)],
              "awaitDetail", TheValue(w.products[Get(pg.products, TheValue(id))].href))
    ELSE Finish(call, ReturnUndefined)

\* ProductGroup.getFullProduct (without loadBasicInfo) up to its request
GroupGetFullProductBegin(call, cat, pcId, pgId, alias, w) ==
    RequestDetail(call, cat, pcId, pgId, GroupOf(w.catalogs[cat], pcId, pgId),
                  GroupGetProductIdByAlias(
                      GroupProductList(GroupOf(w.catalogs[cat], pcId, pgId), w.products),
                      alias),
                  w)

\* this.products[id] = product
PutProduct(call, w, ref) ==
    [w |-> [w EXCEPT !.catalogs = [@ EXCEPT ![TheValue(call.cat)] =
                        SetProduct(@, call.pcId, call.pgId, call.pid, ref)]],
     ref |-> ref]

\* The copy is parsed, flagged and put in the place of the product it was copied from
ReplaceProduct(call, w, a, productRaw) ==
    PutProduct(call,
               SetFullyLoaded(
                   ParseProductInPlace([w EXCEPT !.products = a.products,
                                                 !.childMaps = a.childMaps],
                                       a.ref, productRaw),
                   a.ref, productRaw),
               a.ref)

\* The product the group of the call holds now
HeldProduct(call, w) ==
    w.products[Get(GroupOf(w.catalogs[TheValue(call.cat)], call.pcId, call.pgId).products,
                   call.pid)]

\* ProductGroup.getFullProduct after its request: new Product({ ...this.products[id] }),
\* parseResponse, fullyLoaded, this.products[id].  ref is the new object
GroupGetFullProductEnd(call, w, productRaw) ==
    ReplaceProduct(call, w,
                   AllocProduct(w.products, w.childMaps,
                                NewProduct(ProductAsParameters(HeldProduct(call, w)))),
                   productRaw)

LoadOrDelegate(call, cat, pcId, pgId, pg, id, w) ==
    IF ~TruthyText(id) THEN Finish(call, ReturnUndefined)
    ELSE IF ~w.products[Get(pg.products, TheValue(id))].fullyLoaded /\ call.type # "short"
    THEN GroupGetFullProductBegin(call, cat, pcId, pgId, TheValue(id), w)
    ELSE ProductGetItemGroupsBegin(call, Get(pg.products, TheValue(id)), w)

\* ProductGroup.getItemGroups up to its first request
GroupGetItemGroupsBegin(call, cat, pcId, pgId, w) ==
    LoadOrDelegate(call, cat, pcId, pgId, GroupOf(w.catalogs[cat], pcId, pgId),
                   GroupGetProductIdByAlias(
                       GroupProductList(GroupOf(w.catalogs[cat], pcId, pgId), w.products),
                       call.alias),
                   w)

BasicOrFull(call, cat, id, pg, w) ==
    IF call.basic
    THEN IF Has(pg.products, id.productId)
         THEN Finish(call, [kind |-> "product", val |-> Get(pg.products, id.productId)])
         ELSE Finish(call, ReturnUndefined)
    ELSE GroupGetFullProductBegin(call, cat, id.productClassId, id.productGroupId,
                                  id.productId, w)

\* CdiscLibrary.getFullProduct once the alias is resolved: pcs is what its getProductClasses
\* returned (None: the blank mapping), fullId what getProductIdByAlias returned
GetFullProductResolved(call, pcs, fullId, w) ==
    IF ~IsSome(fullId) THEN Finish(call, ReturnUndefined)
    ELSE IF ~IsSome(pcs) THEN Finish(call, ThrowTypeError)
    ELSE IF ~Has(w.catalogs[TheValue(pcs)], TheValue(fullId).productClassId)
    THEN Finish(call, ThrowTypeError)
    ELSE IF ~Has(Get(w.catalogs[TheValue(pcs)], TheValue(fullId).productClassId).productGroups,
                 TheValue(fullId).productGroupId)
    THEN Finish(call, ThrowTypeError)
    ELSE BasicOrFull(call, TheValue(pcs), TheValue(fullId),
                     GroupOf(w.catalogs[TheValue(pcs)], TheValue(fullId).productClassId,
                             TheValue(fullId).productGroupId), w)

\* CdiscLibrary.getFullProduct from the return of its getProductClasses on
GetFullProductAfterCatalog(call, pcs, w) ==
    IF IsSome(w.productClasses)
    THEN GetFullProductResolved(call, pcs,
             RootGetProductIdByAlias(w.catalogs[TheValue(w.productClasses)], w.products,
                                     call.alias), w)
    ELSE Wait([call EXCEPT !.pcs = pcs], "awaitAliasCatalog", CatalogHref)

\* CdiscLibrary.getFullProduct from the return of the getProductClasses that its
\* getProductIdByAlias awaited
GetFullProductAfterAlias(call, s) ==
    GetFullProductResolved(call, call.pcs,
        IF IsSome(s.result)
        THEN RootGetProductIdByAlias(s.w.catalogs[TheValue(s.result)], s.w.products,
                                     call.alias)
        ELSE None, s.w)

-----------------------------------------------------------------------------
(* The state machine: operations a program starts *)

Init ==
    /\ productClasses = None
    /\ catalogs = EmptyHeap
    /\ products = EmptyHeap
    /\ childMaps = EmptyHeap
    /\ calls = [c \in Callers |-> IdleCall]
    /\ opCount = 0
    /\ node = None
    /\ lastRaw = None
    /\ arg = None
    /\ out = None
    /\ graph = None
    /\ core = None

\* getProductClasses without the test of this.productClasses
GetProductClassesAlways(c) ==
    /\ CanBegin(c)
    /\ Begin(c, Wait(NewCall("getProductClasses"), "awaitCatalog", CatalogHref))

\* cl.getProductClasses()
GetProductClasses(c) ==
    /\ CanBegin(c)
    /\ Begin(c, IF IsSome(productClasses)
                THEN Finish(NewCall("getProductClasses"),
                            [kind |-> "productClasses", val |-> productClasses])
                ELSE Wait(NewCall("getProductClasses"), "awaitCatalog", CatalogHref))

\* cl.getFullProduct(alias, loadBasicInfo)
GetFullProduct(c, alias, basic) ==
    /\ CanBegin(c)
    /\ Begin(c, IF IsSome(productClasses)
                THEN GetFullProductAfterCatalog(
                         [NewCall("getFullProduct") EXCEPT !.alias = alias, !.basic = basic],
                         productClasses, World)
                ELSE Wait([NewCall("getFullProduct") EXCEPT !.alias = alias,
                                                            !.basic = basic],
                          "awaitFirstCatalog", CatalogHref))

\* The product groups of the resident catalog
ResidentGroups ==
    IF IsSome(productClasses)
    THEN LET catalog == catalogs[TheValue(productClasses)]
         IN  UNION {{[pcId |-> catalog[i].k, pgId |-> catalog[i].v.productGroups[j].k] :
                        j \in 1..Len(catalog[i].v.productGroups)} : i \in 1..Len(catalog)}
    ELSE {}

\* pg.getItemGroups(alias, {type}) on the group of the resident catalog that holds the
\* product
GroupGetItemGroups(c, g, alias, type) ==
    /\ CanBegin(c)
    /\ g \in ResidentGroups
    /\ IsSome(GroupGetProductIdByAlias(
                  GroupProductList(GroupOf(catalogs[TheValue(productClasses)],
                                           g.pcId, g.pgId), products), alias))
    /\ Begin(c, GroupGetItemGroupsBegin(
                    [NewCall("ProductGroup.getItemGroups") EXCEPT !.alias = alias,
                                                                  !.type = type],
                    TheValue(productClasses), g.pcId, g.pgId, World))

\* product.getItemGroups({type})
ProductGetItemGroups(c, ref, type) ==
    /\ CanBegin(c)
    /\ ref \in DOMAIN products
    /\ Begin(c, ProductGetItemGroupsBegin(
                    [NewCall("Product.getItemGroups") EXCEPT !.type = type], ref, World))

\* The names a program asks a product for
NamesFor(prod) ==
    IF prod.model = Some(TxtADaM) THEN {ToLowerCase(NameADSL), NameBDS, NameXX}
    ELSE {ToLowerCase(NameAE), NameCE}

\* product.getItemGroup(name, {format})
ProductGetItemGroup(c, ref, name, format) ==
    /\ CanBegin(c)
    /\ ref \in DOMAIN products
    /\ name \in NamesFor(products[ref])
    /\ Begin(c, ProductGetItemGroupBegin(
                    [NewCall("Product.getItemGroup") EXCEPT !.name = name,
                                                            !.format = format],
                    ref, World))

\* cl.reset()
Reset ==
    /\ opCount < MaxOps
    /\ opCount' = opCount + 1
    /\ CommitAll([c \in Callers |-> IF Free(c) THEN calls[c]
                                   ELSE [calls[c] EXCEPT !.reset = TRUE]],
                 [World EXCEPT !.productClasses = None])

\* this[field] = {} when the mapping has entries
ClearChild(w, ref, field) ==
    IF IsSome(w.products[ref][field]) /\ Len(w.childMaps[TheValue(w.products[ref][field])]) > 0
    THEN [w EXCEPT !.childMaps = @ @@ (FreshRef(w.childMaps) :> EmptyMap),
                   !.products = [@ EXCEPT ![ref][field] = Some(FreshRef(w.childMaps))]]
    ELSE w

SetNotLoaded(w, ref) == [w EXCEPT !.products = [@ EXCEPT ![ref].fullyLoaded = FALSE]]

\* product.removeContent(), of a product that is not a terminology
RemoveContent(ref) ==
    /\ opCount < MaxOps
    /\ ref \in DOMAIN products
    /\ opCount' = opCount + 1
    /\ CommitAll(calls,
                 SetNotLoaded(ClearChild(ClearChild(World, ref, "dataClasses"),
                                         ref, "dataStructures"), ref))

-----------------------------------------------------------------------------
(* The state machine: a request of a call in flight is answered *)

Awaits(c, pc, response) ==
    /\ calls[c].pc = pc
    /\ response \in Responses(calls[c].href)

CatalogReceived(c, call, s) ==
    Resume(c, Finish(call, [kind |-> "productClasses", val |-> s.result]), s.w)

\* getProductClasses resumes
ReceiveCatalog(c, response) ==
    /\ Awaits(c, "awaitCatalog", response)
    /\ CatalogReceived(c, Received(calls[c], response),
                       StoreCatalog(ApiRequest(response), World))

FirstCatalogReceived(c, call, s) ==
    Resume(c, GetFullProductAfterCatalog(call, s.result, s.w), s.w)

\* getFullProduct resumes from the getProductClasses it awaited first
ReceiveFirstCatalog(c, response) ==
    /\ Awaits(c, "awaitFirstCatalog", response)
    /\ FirstCatalogReceived(c, Received(calls[c], response),
                            StoreCatalog(ApiRequest(response), World))

AliasCatalogReceived(c, call, s) == Resume(c, GetFullProductAfterAlias(call, s), s.w)

\* getFullProduct resumes from the getProductClasses its getProductIdByAlias awaited
ReceiveAliasCatalog(c, response) ==
    /\ Awaits(c, "awaitAliasCatalog", response)
    /\ AliasCatalogReceived(c, Received(calls[c], response),
                            StoreCatalog(ApiRequest(response), World))

DetailReceived(c, call, e) ==
    Resume(c, IF call.op \in {"ProductGroup.getItemGroups", "CdiscLibrary.getItemGroups"}
              THEN ProductGetItemGroupsBegin(call, e.ref, e.w)
              ELSE Finish(call, [kind |-> "product", val |-> e.ref]),
           e.w)

\* ProductGroup.getFullProduct resumes, on behalf of getFullProduct or of getItemGroups
ReceiveDetail(c, response) ==
    /\ Awaits(c, "awaitDetail", response)
    /\ DetailReceived(c, ReceivedLoad(calls[c], response,
                                       GetCurrentItemGroups(HeldProduct(calls[c], World),
                                                            childMaps)),
                      GroupGetFullProductEnd(calls[c], World, ApiRequest(response)))

\* Product.getItemGroups resumes from the request of the whole product: the product is
\* parsed and flagged, and the mapping the call returns is the blank one it started with
ReceiveProduct(c, response) ==
    /\ Awaits(c, "awaitProduct", response)
    /\ Resume(c, Finish(ReceivedLoad(calls[c], response,
                                     GetCurrentItemGroups(products[TheValue(calls[c].prod)],
                                                          childMaps)),
                        ItemGroupsResult(calls[c].type, calls[c].format, EmptyMap)),
              SetFullyLoaded(ParseProductInPlace(World, TheValue(calls[c].prod),
                                                 ApiRequest(response)),
                             TheValue(calls[c].prod), ApiRequest(response)))

\* itemGroupsRaw._links[this.datasetType]
Listed(itemGroupsRaw, type) ==
    IF Has(itemGroupsRaw.links, type) THEN Get(itemGroupsRaw.links, type) ELSE <<>>

ListingResult(call, listed) ==
    ItemGroupsResult(call.type, call.format,
        PutAll(EmptyMap, [i \in 1..Len(listed) |->
                            ShortEntry(Last(listed[i].href), listed[i].title)]))

\* Product.getItemGroups resumes from the request of the listing
ReceiveListing(c, response) ==
    /\ Awaits(c, "awaitListing", response)
    /\ Resume(c, IF ~HasOwn(ApiRequest(response), "links")
                 THEN Finish(Received(calls[c], response), ThrowTypeError)
                 ELSE Finish(Received(calls[c], response),
                             ListingResult(calls[c],
                                 Listed(ApiRequest(response),
                                        TheValue(products[TheValue(calls[c].prod)].datasetType)))),
              World)

PointSpliced(call, result, spliced) ==
    IF spliced.threw THEN [ret |-> ThrowTypeError, childMaps |-> spliced.childMaps]
    ELSE [ret |-> ItemGroupResult(call.format, Some(result)), childMaps |-> spliced.childMaps]

PointParsed(call, prod, ms, dsRaw, result) ==
    PointSpliced(call, result, SplicePoint(prod, ms, dsRaw, result))

\* Product.getItemGroup from the answer of apiRequest on: what it returns, and the child
\* mappings it leaves
PointOutcome(call, prod, ms, dsRaw) ==
    IF IsEmptyObject(dsRaw) THEN [ret |-> ReturnNull, childMaps |-> ms]
    ELSE PointParsed(call, prod, ms, dsRaw, ParsePointResponse(prod, call.href, dsRaw))

PointReceived(c, call, o) ==
    Resume(c, Finish(call, o.ret), [World EXCEPT !.childMaps = o.childMaps])

\* Product.getItemGroup resumes from the request of the one item group
ReceivePoint(c, response) ==
    /\ Awaits(c, "awaitPoint", response)
    /\ PointReceived(c, Received(calls[c], response),
                     PointOutcome(calls[c], products[TheValue(calls[c].prod)], childMaps,
                                  ApiRequest(response)))

Types == {"long", "short"}

Next ==
    \/ \E c \in Callers : GetProductClasses(c)
    \/ \E c \in Callers, alias \in Aliases, basic \in BOOLEAN : GetFullProduct(c, alias, basic)
    \/ \E c \in Callers, g \in ResidentGroups, alias \in Aliases, type \in Types :
          GroupGetItemGroups(c, g, alias, type)
    \/ \E c \in Callers, ref \in DOMAIN products, type \in Types :
          ProductGetItemGroups(c, ref, type)
    \/ \E c \in Callers, ref \in DOMAIN products, format \in Formats :
          \E name \in NamesFor(products[ref]) : ProductGetItemGroup(c, ref, name, format)
    \/ Reset
    \/ \E ref \in DOMAIN products : RemoveContent(ref)
    \/ \E c \in Callers : \E response \in Responses(calls[c].href) :
          \/ ReceiveCatalog(c, response)
          \/ ReceiveFirstCatalog(c, response)
          \/ ReceiveAliasCatalog(c, response)
          \/ ReceiveDetail(c, response)
          \/ ReceiveProduct(c, response)
          \/ ReceiveListing(c, response)
          \/ ReceivePoint(c, response)

Spec == Init /\ [][Next]_vars

-----------------------------------------------------------------------------
(* The catalog operations of the client, in the default output format *)

\* CdiscLibrary.getProductGroupList: the names of the groups of every class
RootProductGroupList(catalog) ==
    Flatten([i \in 1..Len(catalog) |-> Keys(catalog[i].v.productGroups)])

\* ProductClass.getProductList: the ids of the products of every group
ClassGetProductList(pc, ps) ==
    Flatten([j \in 1..Len(pc.productGroups) |-> GroupProductList(pc.productGroups[j].v, ps)])

\* CdiscLibrary.getProductList
RootProductList(catalog, ps) ==
    Flatten([i \in 1..Len(catalog) |-> ClassGetProductList(catalog[i].v, ps)])

\* The entry of a property that holds undefined, which an object-valued one does not get
UnlessObject(k, o) == IF IsSome(o) THEN <<>> ELSE <<[k |-> k, v |-> Undefined]>>

\* The entry of a property the constructor assigns only when it has a value for it
WhenAssigned(k, o) == IF IsSome(o) THEN <<[k |-> k, v |-> TheValue(o)]>> ELSE <<>>

\* The properties of a product that are not objects, in the order the constructor assigns
\* them
ProductDetailsLong(prod) ==
    <<[k |-> "id", v |-> prod.id], [k |-> "name", v |-> prod.name],
      [k |-> "label", v |-> prod.label], [k |-> "type", v |-> prod.type],
      [k |-> "description", v |-> prod.description], [k |-> "source", v |-> prod.source],
      [k |-> "effectiveDate", v |-> prod.effectiveDate],
      [k |-> "registrationStatus", v |-> prod.registrationStatus],
      [k |-> "href", v |-> IF IsSome(prod.href) THEN TheValue(prod.href) ELSE Undefined]>>
    \o UnlessObject("dataStructures", prod.dataStructures)
    \o UnlessObject("dataClasses", prod.dataClasses)
    \o UnlessObject("codelists", prod.codelists)
    \o WhenAssigned("version", prod.version)
    \o WhenAssigned("model", prod.model)
    \o WhenAssigned("datasetType", prod.datasetType)
    \o <<[k |-> "fullyLoaded", v |-> prod.fullyLoaded]>>
    \o UnlessObject("dependencies", prod.dependencies)

\* The record getProductDetails makes of one product
ProductDetails(prod, type) ==
    IF type = "short" THEN <<[k |-> "id", v |-> prod.id], [k |-> "label", v |-> prod.label]>>
    ELSE IF type = "long" THEN ProductDetailsLong(prod)
    ELSE <<>>

GroupProductDetails(pg, ps, type) ==
    [n \in 1..Len(pg.products) |-> ProductDetails(ps[pg.products[n].v], type)]

ClassProductDetails(pc, ps, type) ==
    Flatten([j \in 1..Len(pc.productGroups) |->
                GroupProductDetails(pc.productGroups[j].v, ps, type)])

\* CdiscLibrary.getProductDetails over the mapping its getProductClasses returned
RootProductDetails(catalog, ps, type) ==
    Flatten([i \in 1..Len(catalog) |-> ClassProductDetails(catalog[i].v, ps, type)])

ReturnList(list) == [kind |-> "list", val |-> list]

ReturnFullId(fullId) ==
    IF IsSome(fullId) THEN [kind |-> "fullId", val |-> TheValue(fullId)] ELSE ReturnUndefined

\* What a catalog accessor returns from the mapping it works on (None: the blank mapping)
OverCatalog(call, pcs, w) ==
    IF call.op = "getProductIdByAlias"
    THEN ReturnFullId(IF IsSome(pcs)
                      THEN RootGetProductIdByAlias(w.catalogs[TheValue(pcs)], w.products,
                                                   call.alias)
                      ELSE None)
    ELSE IF call.op = "getProductGroupList"
    THEN ReturnList(IF IsSome(pcs) THEN RootProductGroupList(w.catalogs[TheValue(pcs)])
                    ELSE <<>>)
    ELSE IF call.op = "getProductList"
    THEN ReturnList(IF IsSome(pcs) THEN RootProductList(w.catalogs[TheValue(pcs)], w.products)
                    ELSE <<>>)
    ELSE ReturnList(IF IsSome(pcs)
                    THEN RootProductDetails(w.catalogs[TheValue(pcs)], w.products, call.type)
                    ELSE <<>>)

\* The loops of CdiscLibrary.getItemGroup(s) and ProductClass.getItemGroup(s) from the first
\* group on that resolves the alias; the groups before it return undefined, and so do the
\* ones after it
ItemGroupsResolved(call, cat, fullId, w) ==
    IF ~IsSome(fullId) THEN Finish(call, ReturnUndefined)
    ELSE IF call.op = "CdiscLibrary.getItemGroup"
    THEN ProductGetItemGroupBegin(
             call,
             Get(GroupOf(w.catalogs[cat], TheValue(fullId).productClassId,
                         TheValue(fullId).productGroupId).products,
                 TheValue(fullId).productId),
             w)
    ELSE GroupGetItemGroupsBegin(call, cat, TheValue(fullId).productClassId,
                                 TheValue(fullId).productGroupId, w)

\* CdiscLibrary.getItemGroup(s) from Object.values(this.productClasses) on
ItemGroupsOverCatalog(call, w) ==
    IF ~IsSome(w.productClasses) THEN Finish(call, ThrowTypeError)
    ELSE ItemGroupsResolved(call, TheValue(w.productClasses),
                            RootGetProductIdByAlias(w.catalogs[TheValue(w.productClasses)],
                                                    w.products, call.alias),
                            w)

ItemGroupOps == {"CdiscLibrary.getItemGroup", "CdiscLibrary.getItemGroups"}

\* The operation goes on with the catalog: pcs is the mapping getProductClasses returned
AfterRootCatalog(call, pcs, w) ==
    IF call.op \in ItemGroupOps THEN ItemGroupsOverCatalog(call, w)
    ELSE Finish(call, OverCatalog(call, pcs, w))

\* The operation up to its request of the catalog
RootBegin(c, call) ==
    /\ CanBegin(c)
    /\ Begin(c, IF IsSome(productClasses) THEN AfterRootCatalog(call, productClasses, World)
                ELSE Wait(call, "awaitRootCatalog", CatalogHref))

\* cl.getProductIdByAlias(alias)
GetProductIdByAlias(c, alias) ==
    RootBegin(c, [NewCall("getProductIdByAlias") EXCEPT !.alias = alias])

\* cl.getProductGroupList()
GetProductGroupList(c) == RootBegin(c, NewCall("getProductGroupList"))

\* cl.getProductList()
GetProductList(c) == RootBegin(c, NewCall("getProductList"))

\* cl.getProductDetails({type})
GetProductDetails(c, type) ==
    RootBegin(c, [NewCall("getProductDetails") EXCEPT !.type = type])

\* cl.getItemGroup(name, alias)
CdiscGetItemGroup(c, name, alias) ==
    RootBegin(c, [NewCall("CdiscLibrary.getItemGroup") EXCEPT !.name = name,
                                                              !.alias = alias])

\* cl.getItemGroups(alias, {type})
CdiscGetItemGroups(c, alias, type) ==
    RootBegin(c, [NewCall("CdiscLibrary.getItemGroups") EXCEPT !.alias = alias,
                                                               !.type = type])

RootCatalogReceived(c, call, s) == Resume(c, AfterRootCatalog(call, s.result, s.w), s.w)

\* The operation resumes from the getProductClasses it awaited
ReceiveRootCatalog(c, response) ==
    /\ Awaits(c, "awaitRootCatalog", response)
    /\ RootCatalogReceived(c, Received(calls[c], response),
                           StoreCatalog(ApiRequest(response), World))

\* The names a program asks the client for
RootNames == {ToLowerCase(NameADSL), NameXX}

\* A program that works with the client only.  Its calls never wait for a whole product
\* on behalf of Product.getItemGroups: ProductGroup.getItemGroups loads the product first
NextCatalog ==
    \/ \E c \in Callers : GetProductClasses(c)
    \/ \E c \in Callers, alias \in Aliases, basic \in BOOLEAN : GetFullProduct(c, alias, basic)
    \/ \E c \in Callers, alias \in Aliases : GetProductIdByAlias(c, alias)
    \/ \E c \in Callers : GetProductGroupList(c)
    \/ \E c \in Callers : GetProductList(c)
    \/ \E c \in Callers, type \in Types : GetProductDetails(c, type)
    \/ \E c \in Callers, name \in RootNames, alias \in Aliases :
          CdiscGetItemGroup(c, name, alias)
    \/ \E c \in Callers, alias \in Aliases, type \in Types : CdiscGetItemGroups(c, alias, type)
    \/ Reset
    \/ \E c \in Callers : \E response \in Responses(calls[c].href) :
          \/ ReceiveCatalog(c, response)
          \/ ReceiveFirstCatalog(c, response)
          \/ ReceiveAliasCatalog(c, response)
          \/ ReceiveRootCatalog(c, response)
          \/ ReceiveDetail(c, response)
          \/ ReceiveListing(c, response)
          \/ ReceivePoint(c, response)

SpecCatalog == Init /\ [][NextCatalog]_vars

-----------------------------------------------------------------------------
(* Re-parsing: parseResponse applied again and again to one node *)

\* The elements of s at the indices I, in the order of s
Pick(s, I) ==
    LET F[i \in 0..Len(s)] ==
            IF i = 0 THEN <<>> ELSE IF i \in I THEN Append(F[i - 1], s[i]) ELSE F[i - 1]
    IN  F[Len(s)]

SubLists(s) == {Pick(s, I) : I \in SUBSET (1..Len(s))}

Without(raw, f) == [g \in DOMAIN raw \ {f} |-> raw[g]]

\* The responses a node is parsed from: with each choice of children under the key and
\* without the key, and each of these also without one scalar
Carrying(raw, key, children) ==
    {[raw EXCEPT ![key] = l] : l \in SubLists(children)} \union {Without(raw, key)}

Variants(raw, key, children, scalar) ==
    Carrying(raw, key, children)
        \union {Without(r, scalar) : r \in Carrying(raw, key, children)}

ProductRaws ==
    Variants(Adamig11Raw, "dataStructures", <<AdslRaw, BdsRaw>>, "description")
        \union Variants(Sdtmig32Raw, "classes", Sdtmig32Raw.classes, "description")

DataClassRaws ==
    Variants(Last(Sdtmig32Raw.classes), "datasets", <<AeRaw, CeRaw, DmRaw>>, "label")

DataStructureRaws ==
    Variants(AdslRaw, "analysisVariableSets",
             AdslRaw.analysisVariableSets \o BdsRaw.analysisVariableSets, "description")

ItemGroupRaws ==
    Variants(AeRaw, "datasetVariables", AeRaw.datasetVariables \o CeRaw.datasetVariables,
             "label")

\* A product as ProductGroup.parseResponse constructs it, with the mappings it owns
ProductNode(a) ==
    [kind |-> "Product", w |-> [products |-> a.products, childMaps |-> a.childMaps],
     ref |-> a.ref]

InitialNodes ==
    {ProductNode(AllocProduct(EmptyHeap, EmptyHeap,
                              NewProductFromListing(Head(CatalogListings(CatalogRaw)).gRaw))),
     [kind |-> "DataClass", obj |-> NewDataClass(Some(ClsEvents), ClassHref(ClsEvents))],
     [kind |-> "DataStructure", obj |-> NewDataStructure(NameADSL, AdslHref)],
     [kind |-> "ItemGroup",
      obj |-> NewDataset(Some(NameAE), Some(NameAE), Some(DatasetHref(NameAE)))]}

InitParse ==
    /\ productClasses = None
    /\ catalogs = EmptyHeap
    /\ products = EmptyHeap
    /\ childMaps = EmptyHeap
    /\ calls = [c \in Callers |-> IdleCall]
    /\ opCount = 0
    /\ node \in InitialNodes
    /\ lastRaw = None
    /\ arg = None
    /\ out = None
    /\ graph = None
    /\ core = None

Parsed(n, raw) ==
    /\ node' = n
    /\ lastRaw' = Some(raw)
    /\ UNCHANGED <<productClasses, catalogs, products, childMaps, calls, opCount, arg, out,
                   graph, core>>

\* The mappings the product no longer refers to are gone
Owned(w, ref) == [w EXCEPT !.childMaps = Restrict(@, ProductMaps(w.products[ref]))]

\* product.parseResponse(pRaw)
ReparseProduct(pRaw) ==
    /\ node.kind = "Product"
    /\ Parsed([node EXCEPT !.w = Owned(ParseProductInPlace(@, node.ref, pRaw), node.ref)],
              pRaw)

\* dataClass.parseResponse(dcRaw)
ReparseDataClass(dcRaw) ==
    /\ node.kind = "DataClass"
    /\ Parsed([node EXCEPT !.obj = ParseDataClassResponse(@, dcRaw, None)], dcRaw)

\* dataStructure.parseResponse(dsRaw)
ReparseDataStructure(dsRaw) ==
    /\ node.kind = "DataStructure"
    /\ Parsed([node EXCEPT !.obj = ParseDataStructureResponse(@, dsRaw)], dsRaw)

\* dataset.parseResponse(raw)
ReparseItemGroup(raw) ==
    /\ node.kind = "ItemGroup"
    /\ Parsed([node EXCEPT !.obj = ParseGroupResponse(@, raw)], raw)

NextParse ==
    \/ \E pRaw \in ProductRaws : ReparseProduct(pRaw)
    \/ \E dcRaw \in DataClassRaws : ReparseDataClass(dcRaw)
    \/ \E dsRaw \in DataStructureRaws : ReparseDataStructure(dsRaw)
    \/ \E raw \in ItemGroupRaws : ReparseItemGroup(raw)

SpecParse == InitParse /\ [][NextParse]_vars

-----------------------------------------------------------------------------
(* Item matching: matchItem *)

Returned(v) == [kind |-> "return", val |-> v]

DigitChars == {"0","1","2","3","4","5","6","7","8","9"}

\* \d and \w of a regular expression
IsDigit(c) == c \in DigitChars

IsWord(c) == IsDigit(c) \/ c = "_" \/ UpperChar(c) # c \/ LowerChar(c) # c

\* s.replace(/[chars]/g, rep)
ReplaceChars(s, chars, rep) ==
    Flatten([i \in 1..Len(s) |-> IF s[i] \in chars THEN rep ELSE <<s[i]>>])

HasAny(s, chars) == \E i \in 1..Len(s) : s[i] \in chars

\* The pattern matchItem builds from a template: the four replacements, in the order of
\* the code, each applied to the text the one before produced
TemplatePattern(itemName) ==
    ReplaceChars(
        ReplaceChars(
            ReplaceChars(
                ReplaceChars(itemName, {"x", "z", "w"}, <<"\\", "d">>),
                {"y"}, <<"[", "1", "-", "9", "]", "?", "\\", "d">>),
            {"*"}, <<"\\", "w", "+">>),
        {"-"}, <<"\\", "w">>)

\* The members of a character class: an escape or a character (every '-' of the pattern
\* has been replaced before it is compiled, so a class holds no range)
RECURSIVE ParseClass(_)
ParseClass(inner) ==
    IF inner = <<>> THEN <<>>
    ELSE IF Head(inner) = "\\"
    THEN <<[kind |-> "escape", c |-> inner[2]]>> \o ParseClass(SubSeq(inner, 3, Len(inner)))
    ELSE <<[kind |-> "char", c |-> Head(inner)]>> \o ParseClass(Tail(inner))

\* The index of the first ']' of the text
ClassEnd(p) == CHOOSE j \in 1..Len(p) : p[j] = "]" /\ \A k \in 1..(j - 1) : p[k] # "]"

\* The atom at the head of a pattern and the number of characters it takes
HeadAtom(p) ==
    IF Head(p) = "\\" THEN [kind |-> "escape", c |-> p[2], members |-> <<>>, len |-> 2]
    ELSE IF Head(p) = "["
    THEN [kind |-> "class", c |-> "", members |-> ParseClass(SubSeq(p, 2, ClassEnd(p) - 1)),
          len |-> ClassEnd(p)]
    ELSE [kind |-> "char", c |-> Head(p), members |-> <<>>, len |-> 1]

\* The quantifier that follows an atom of n characters
Quantifier(p, n) ==
    IF Len(p) > n /\ p[n + 1] \in {"?", "+"} THEN p[n + 1] ELSE "1"

Quantified(p, atom) ==
    [atom |-> atom, quant |-> Quantifier(p, atom.len),
     len |-> atom.len + (IF Quantifier(p, atom.len) = "1" THEN 0 ELSE 1)]

\* new RegExp(pattern): the quantified atoms of the pattern
RECURSIVE ParseRegex(_)
RECURSIVE ParseRest(_, _)
ParseRegex(p) == IF p = <<>> THEN <<>> ELSE ParseRest(p, Quantified(p, HeadAtom(p)))

ParseRest(p, q) == <<q>> \o ParseRegex(SubSeq(p, q.len + 1, Len(p)))

\* One character against an escape or a character, without regard to case
FitsMember(m, c) ==
    IF m.kind = "escape" THEN IF m.c = "d" THEN IsDigit(c) ELSE IsWord(c)
    ELSE UpperChar(m.c) = UpperChar(c)

Fits(atom, c) ==
    IF atom.kind = "class" THEN \E i \in 1..Len(atom.members) : FitsMember(atom.members[i], c)
    ELSE FitsMember(atom, c)

\* The positions of the name a match can have reached after the atom, from the positions
\* it can have reached before it
AfterAtom(q, from, name) ==
    LET run(i, k) == \A m \in i..(k - 1) : Fits(q.atom, name[m])
    IN  IF q.quant = "+"
        THEN {k \in 2..(Len(name) + 1) : \E i \in from : i < k /\ run(i, k)}
        ELSE {i + 1 : i \in {j \in from : j <= Len(name) /\ Fits(q.atom, name[j])}}
                 \union (IF q.quant = "?" THEN from ELSE {})

RECURSIVE Reached(_, _, _)
Reached(atoms, from, name) ==
    IF atoms = <<>> THEN from
    ELSE Reached(Tail(atoms), AfterAtom(Head(atoms), from, name), name)

\* new RegExp('^' + pattern + '$', 'i').test(name)
RegexTest(pattern, name) == (Len(name) + 1) \in Reached(ParseRegex(pattern), {1}, name)

\* The branch of matchItem that compares the whole name
MatchFull(name, itemName) ==
    IF HasAny(itemName, {"-", "*", "w", "x", "y", "z"})
    THEN RegexTest(TemplatePattern(itemName), name)
    ELSE RegexTest(itemName, name)

\* name.replace(/\d{1,2}/g, '1'): digits are taken two at a time where two follow each other
RECURSIVE ReplaceDigitRuns(_)
ReplaceDigitRuns(name) ==
    IF name = <<>> THEN <<>>
    ELSE IF ~IsDigit(Head(name)) THEN <<Head(name)>> \o ReplaceDigitRuns(Tail(name))
    ELSE IF Len(name) >= 2 /\ IsDigit(name[2])
    THEN <<"1">> \o ReplaceDigitRuns(SubSeq(name, 3, Len(name)))
    ELSE <<"1">> \o ReplaceDigitRuns(Tail(name))

\* /0\d/.test(name)
HasZeroDigit(name) == \E i \in 1..(Len(name) - 1) : name[i] = "0" /\ IsDigit(name[i + 1])

\* A partial match that asks whether the name contains the template
MatchPartialReversed(name, itemName) == Includes(name, itemName)

\* The branch of matchItem that looks for the name inside the template
MatchPartial(name, itemName) ==
    IF Includes(itemName, name) THEN TRUE
    ELSE IF HasAny(itemName, {"w", "x", "y", "z"})
    THEN IF HasAny(name, DigitChars) /\ HasAny(itemName, {"w", "x", "z"})
         THEN Includes(ReplaceChars(itemName, {"w", "x", "z", "y"}, <<"1">>),
                       ReplaceChars(name, DigitChars, <<"1">>))
         ELSE IF HasAny(name, DigitChars) /\ HasAny(itemName, {"y"}) /\ ~HasZeroDigit(name)
         THEN Includes(ReplaceChars(itemName, {"y"}, <<"1">>), ReplaceDigitRuns(name))
         ELSE FALSE
    ELSE FALSE

\* A fall-back that only '*' triggers
UsesFullComparisonStarOnly(itemName) == HasAny(itemName, {"*"})

\* item.name.includes('*') || item.name.includes('-')
UsesFullComparison(itemName) == HasAny(itemName, {"*"}) \/ HasAny(itemName, {"-"})

ThrowError == [kind |-> "throw", val |-> "Error"]

\* A matcher that takes every unknown mode for 'partial'
MatchItemLenient(name, itemName, mode) ==
    IF mode = "full" THEN Returned(MatchFull(name, itemName))
    ELSE Returned(MatchPartial(name, itemName))

\* matchItem(name, item, mode)
MatchItem(name, itemName, mode) ==
    IF mode = "full" \/ (mode = "partial" /\ UsesFullComparison(itemName))
    THEN Returned(MatchFull(name, itemName))
    ELSE IF mode = "partial" THEN Returned(MatchPartial(name, itemName))
    ELSE ThrowError

-----------------------------------------------------------------------------
(* Item search: findMatchingItems *)

\* The items of a mapping that match, in the order of the mapping; with firstOnly the
\* search stops at the first one
MatchingItems(items, name, mode, firstOnly) ==
    LET hits == SelectSeq(items, LAMBDA item : MatchItem(name, item.name, mode).val)
    IN  IF firstOnly /\ hits # <<>> THEN <<Head(hits)>> ELSE hits

\* A scan that stops after the first child with a match, whatever firstOnly is
ScanUntilFirstMatch(matches, firstOnly) ==
    IF \E i \in 1..Len(matches) : matches[i] # <<>>
    THEN matches[CHOOSE i \in 1..Len(matches) :
                    matches[i] # <<>> /\ \A j \in 1..(i - 1) : matches[j] = <<>>]
    ELSE <<>>

\* Object.values(children).some(...): the matches of the children are concatenated, and
\* with firstOnly the scan stops after the first child that has any
ScanChildren(matches, firstOnly) ==
    IF firstOnly
    THEN IF \E i \in 1..Len(matches) : matches[i] # <<>>
         THEN matches[CHOOSE i \in 1..Len(matches) :
                        matches[i] # <<>> /\ \A j \in 1..(i - 1) : matches[j] = <<>>]
         ELSE <<>>
    ELSE Flatten(matches)

\* Scenario.findMatchingItems: that of a new Domain with the fields of the scenario
ScenarioFindMatchingItems(scenario, name, mode, firstOnly) ==
    MatchingItems(scenario.fields, name, mode, firstOnly)

\* ItemGroup.findMatchingItems: the items of the group, then those of each of its scenarios
ItemGroupFindMatchingItems(ig, name, mode, firstOnly) ==
    (IF IsSome(ig.items) THEN MatchingItems(TheValue(ig.items), name, mode, firstOnly)
     ELSE <<>>)
        \o (IF IsSome(ig.scenarios)
            THEN Flatten([i \in 1..Len(TheValue(ig.scenarios)) |->
                            ScenarioFindMatchingItems(TheValue(ig.scenarios)[i], name, mode,
                                                      firstOnly)])
            ELSE <<>>)

GroupsFindMatchingItems(groups, name, mode, firstOnly) ==
    IF IsSome(groups)
    THEN ScanChildren([i \in 1..Len(TheValue(groups)) |->
                         ItemGroupFindMatchingItems(TheValue(groups)[i], name, mode,
                                                    firstOnly)], firstOnly)
    ELSE <<>>

\* DataStructure.findMatchingItems
DataStructureFindMatchingItems(ds, name, mode, firstOnly) ==
    GroupsFindMatchingItems(ds.analysisVariableSets, name, mode, firstOnly)

\* The class-level items are searched unless firstOnly is set and something was found
ThenClassItems(result, items, name, mode, firstOnly) ==
    IF IsSome(items) /\ ~(firstOnly /\ result # <<>>)
    THEN result \o MatchingItems(TheValue(items), name, mode, firstOnly)
    ELSE result

\* DataClass.findMatchingItems: datasets, domains, class variables, CDASH model fields
DataClassFindMatchingItems(dc, name, mode, firstOnly) ==
    ThenClassItems(
        ThenClassItems(
            GroupsFindMatchingItems(dc.datasets, name, mode, firstOnly)
                \o GroupsFindMatchingItems(dc.domains, name, mode, firstOnly),
            dc.classVariables, name, mode, firstOnly),
        dc.cdashModelFields, name, mode, firstOnly)

\* Product.findMatchingItems: over the data structures if there are any, else the classes
ProductFindMatchingItems(prod, name, mode, firstOnly) ==
    IF IsSome(prod.dataStructures)
    THEN ScanChildren([i \in 1..Len(TheValue(prod.dataStructures)) |->
                         DataStructureFindMatchingItems(TheValue(prod.dataStructures)[i],
                                                        name, mode, firstOnly)], firstOnly)
    ELSE IF IsSome(prod.dataClasses)
    THEN ScanChildren([i \in 1..Len(TheValue(prod.dataClasses)) |->
                         DataClassFindMatchingItems(TheValue(prod.dataClasses)[i],
                                                    name, mode, firstOnly)], firstOnly)
    ELSE <<>>

\* container.findMatchingItems(name, { mode, firstOnly })
FindMatchingItems(c, name, mode, firstOnly) ==
    IF c.class = "Product" THEN ProductFindMatchingItems(c, name, mode, firstOnly)
    ELSE IF c.class = "DataStructure"
    THEN DataStructureFindMatchingItems(c, name, mode, firstOnly)
    ELSE IF c.class = "DataClass" THEN DataClassFindMatchingItems(c, name, mode, firstOnly)
    ELSE IF c.class = "Scenario" THEN ScenarioFindMatchingItems(c, name, mode, firstOnly)
    ELSE ItemGroupFindMatchingItems(c, name, mode, firstOnly)

-----------------------------------------------------------------------------
(* Functions applied to arguments: alias resolution, item matching, item search *)

IdSdtmig33 == SegSdtmig \o <<"-","3","-","3">>

\* The product ids a group holds, in every order and in every selection
GroupProductIds == {IdSdtmig32, IdSdtmig33, IdAdamig11}

Orderings(S) ==
    {l \in UNION {[1..n -> S] : n \in 0..Cardinality(S)} :
        \A i, j \in 1..Len(l) : l[i] = l[j] => i = j}

ProductLists == Orderings(GroupProductIds)

AliasSdtmIg32 == <<"S","D","T","M","-","I","G"," ","3",".","2">>
AliasSdtmig32 == <<"s","d","t","m","i","g","3","2">>
AliasSdtmig == SegSdtmig
AliasIg == <<"i","g">>
AliasUpper33 == <<"S","D","T","M","I","G","-","3","-","3">>
AliasV33 == <<"3",".","3">>
AliasUnknown == <<"c","d","a","s","h">>

AliasInputs ==
    {IdSdtmig32, AliasSdtmIg32, AliasSdtmig32, AliasSdtmig, AliasIg, AliasUpper33, AliasV33,
     AliasAdamig11, AliasUnknown, <<>>}

\* A client that has requested nothing yet
EmptyWorld ==
    [productClasses |-> None, catalogs |-> EmptyHeap, products |-> EmptyHeap,
     childMaps |-> EmptyHeap]

\* A catalog response that lists no product class
EmptyCatalogRaw == [links |-> <<[k |-> "self", v |-> [href |-> CatalogHref]]>>]

\* The client with no catalog, with an empty catalog and with the catalog of the server
CatalogStates == {"notLoaded", "empty", "loaded"}

CatalogWorld(state) ==
    IF state = "notLoaded" THEN EmptyWorld
    ELSE IF state = "empty" THEN StoreCatalog(EmptyCatalogRaw, EmptyWorld).w
    ELSE StoreCatalog(CatalogRaw, EmptyWorld).w

LoadedCatalog == CatalogWorld("loaded").catalogs[TheValue(CatalogWorld("loaded").productClasses)]

\* A product class as its constructor leaves it, and the classes of the loaded catalog
BlankProductClass == [name |-> "", productGroups |-> EmptyMap]

ProductClassInputs ==
    {BlankProductClass} \union {LoadedCatalog[i].v : i \in 1..Len(LoadedCatalog)}

\* The applications of getProductIdByAlias at the three levels
AliasApplications ==
    [fn : {"ProductGroup.getProductIdByAlias"}, productList : ProductLists,
     alias : AliasInputs]
        \union [fn : {"ProductClass.getProductIdByAlias"}, pc : ProductClassInputs,
                alias : AliasInputs]
        \union [fn : {"CdiscLibrary.getProductIdByAlias"}, catalog : CatalogStates,
                response : Responses(CatalogHref), alias : AliasInputs]

\* The templates of standard item names and the names matched against them
TplTRxxPGy == <<"T","R","x","x","P","G","y">>
TplAVALC == <<"A","V","A","L","C">>
TplAVAL == <<"A","V","A","L">>
TplStarDT == <<"*","D","T">>
TplDashTEST == <<"-","-","T","E","S","T">>
TplTRTxxP == <<"T","R","T","x","x","P">>
TplPHy == <<"P","H","y">>

Templates == {TplTRxxPGy, TplAVALC, TplAVAL, TplStarDT, TplDashTEST, TplTRTxxP, TplPHy}

NameTR01PG12 == <<"T","R","0","1","P","G","1","2">>
NameTR12PG1 == <<"T","R","1","2","P","G","1">>
NameTR1PG12 == <<"T","R","1","P","G","1","2">>
NameTR01PGA1 == <<"T","R","0","1","P","G","A","1">>
NameTr01pg5 == <<"t","r","0","1","p","g","5">>
NameADT == <<"A","D","T">>
NameAETEST == <<"A","E","T","E","S","T">>
NameTRT01 == <<"T","R","T","0","1">>
NameH2 == <<"H","2">>
NameH12 == <<"H","1","2">>
NameH02 == <<"H","0","2">>

MatchNames ==
    {NameTR01PG12, NameTR12PG1, NameTR1PG12, NameTR01PGA1, NameTr01pg5, TplAVAL, TplAVALC,
     NameADT, NameAETEST, NameTRT01, NameH2, NameH12, NameH02, <<"D","T">>}

\* The values a caller passes for the mode
Modes == {"full", "partial", "exact", Undefined}

MatchApplications ==
    [fn : {"matchItem"}, name : MatchNames, itemName : Templates, mode : Modes]

\* The containers that are searched: items carry the id of the container they are in
ItemOf(owner, name) == [id |-> owner \o <<".">> \o name, name |-> name]

ItemsOf(owner, names) == [i \in 1..Len(names) |-> ItemOf(owner, names[i])]

ItemNameLists == {<<>>, <<TplAVAL>>, <<TplAVALC, TplAVAL>>}

ScenarioInputs ==
    {[class |-> "Scenario", id |-> <<"S">>, fields |-> ItemsOf(<<"S">>, names)] :
        names \in ItemNameLists}

ScenarioLists ==
    {None} \union {Some(l) : l \in UNION {[1..n -> ScenarioInputs] : n \in 1..2}}

ItemGroupOf(class, id, names, scenarios) ==
    [class |-> class, id |-> id, items |-> Some(ItemsOf(id, names)), scenarios |-> scenarios]

DatasetInputs == {ItemGroupOf("Dataset", <<"D">>, names, None) : names \in ItemNameLists}

VariableSetInputs ==
    {ItemGroupOf("AnalysisVariableSet", <<"V">>, names, None) : names \in ItemNameLists}

DomainInputs ==
    {ItemGroupOf("Domain", <<"F">>, names, scenarios) :
        names \in ItemNameLists, scenarios \in ScenarioLists}

\* A mapping of children that is undefined, or holds one or two of them
ChildLists(children) ==
    {None} \union {Some(<<c>>) : c \in children}
           \union {Some(<<c, d>>) : c \in children, d \in children}

DataStructureInputs ==
    {[class |-> "DataStructure", analysisVariableSets |-> sets] :
        sets \in ChildLists(VariableSetInputs)}

\* The domains a class is searched with: none, one without scenarios, one with two
ClassDomainLists ==
    {None, Some(<<ItemGroupOf("Domain", <<"F">>, <<TplAVAL>>, None)>>),
     Some(<<ItemGroupOf("Domain", <<"F">>, <<>>,
                        Some(<<[class |-> "Scenario", id |-> <<"S">>,
                                fields |-> ItemsOf(<<"S">>, <<TplAVALC, TplAVAL>>)],
                               [class |-> "Scenario", id |-> <<"S">>,
                                fields |-> ItemsOf(<<"S">>, <<TplAVAL>>)]>>))>>)}

ClassItemLists == {None} \union {Some(ItemsOf(<<"C">>, names)) : names \in ItemNameLists}

DataClassInputs ==
    [class : {"DataClass"}, datasets : ChildLists({ItemGroupOf("Dataset", <<"D">>, names, None) :
                                                      names \in {<<>>, <<TplAVAL>>}}),
     domains : ClassDomainLists, classVariables : ClassItemLists,
     cdashModelFields : {None, Some(ItemsOf(<<"M">>, <<TplAVAL>>))}]

ProductInputs ==
    {[class |-> "Product", dataStructures |-> Some(<<a, b>>), dataClasses |-> None] :
        a \in DataStructureInputs, b \in {[class |-> "DataStructure",
                                           analysisVariableSets |->
                                               Some(<<ItemGroupOf("AnalysisVariableSet", <<"V">>,
                                                                  <<TplAVAL>>, None)>>)]}}
        \union {[class |-> "Product", dataStructures |-> None, dataClasses |-> Some(<<c>>)] :
                   c \in {d \in DataClassInputs : d.classVariables = None}}
        \union {[class |-> "Product", dataStructures |-> None, dataClasses |-> None]}

Containers ==
    ScenarioInputs \union DatasetInputs \union VariableSetInputs \union DomainInputs
        \union DataStructureInputs \union DataClassInputs \union ProductInputs

FindApplications ==
    [fn : {"findMatchingItems"}, container : Containers, name : {TplAVAL},
     mode : {"full", "partial"}, firstOnly : BOOLEAN]

\* 1024, the divisor of getTrafficStats
Kilo == 1024

\* byteUnits
ByteUnits == <<" kB", " MB", " GB", " TB", "PB", "EB", "ZB", "YB">>

RECURSIVE Power(_, _)
Power(b, n) == IF n = 0 THEN 1 ELSE b * Power(b, n - 1)

RECURSIVE Divisions(_, _)
\* do { traffic = traffic / 1024; i++ } while (traffic > 1024): the number of divisions,
\* i divisions made so far
Divisions(traffic, i) ==
    IF i = 0 \/ traffic > Kilo * Power(Kilo, i) THEN Divisions(traffic, i + 1) ELSE i

\* (traffic / divisor).toFixed(1) in tenths: the nearest tenth, the larger one of two
NearestTenth(traffic, divisor) ==
    10 * (traffic \div divisor) + (20 * (traffic % divisor) + divisor) \div (2 * divisor)

\* Math.max(traffic, 0.1).toFixed(1) in tenths, traffic being the byte count over divisor
TenthsUnfloored(traffic, divisor) == NearestTenth(traffic, divisor)

\* Math.max(traffic, 0.1).toFixed(1) in tenths, traffic being the byte count over divisor
Tenths(traffic, divisor) ==
    IF 10 * traffic < divisor THEN 1 ELSE NearestTenth(traffic, divisor)

\* The text toFixed(1) + byteUnits[i], as the tenths and the suffix
Scaled(traffic, divisions) ==
    [tenths |-> Tenths(traffic, Power(Kilo, divisions)),
     unit |-> IF divisions <= Len(ByteUnits) THEN ByteUnits[divisions] ELSE Undefined]

ZeroBytes == [tenths |-> 0, unit |-> "0 bytes"]

\* The counter the type selects
SelectedTraffic(traffic, type) ==
    IF type = "all" THEN traffic.incoming + traffic.outgoing
    ELSE IF type = "incoming" THEN traffic.incoming
    ELSE IF type = "outgoing" THEN traffic.outgoing
    ELSE 0

\* cl.getTrafficStats(type, format)
GetTrafficStats(traffic, type, format) ==
    IF format = "num" THEN [tenths |-> 10 * SelectedTraffic(traffic, type), unit |-> "num"]
    ELSE IF SelectedTraffic(traffic, type) = 0 THEN ZeroBytes
    ELSE Scaled(SelectedTraffic(traffic, type), Divisions(SelectedTraffic(traffic, type), 0))

\* Byte counts around the floor of 0.1 kB, around the steps between the units, and zero
TrafficCounts == {0, 1, 103, 154, 1024, 1536, 1048576, 1048577, 3145728, 67108864}

TrafficTypes == {"all", "incoming", "outgoing"}

TrafficApplications ==
    [fn : {"getTrafficStats"}, incoming : TrafficCounts, outgoing : TrafficCounts,
     type : TrafficTypes, format : {"char", "num"}]

IdSdtmig321 == IdSdtmig32 \o <<"-","1">>

\* The ids of a catalog of two product groups, one list per group
LayoutIds == {IdSdtmig32, IdSdtmig321, IdAdamig11}

Layouts ==
    {<<a, b>> : a \in Orderings(LayoutIds) \ {<<>>}, b \in Orderings(LayoutIds) \ {<<>>}}

\* The products of a catalog of two groups, by reference: those of the first group are
\* followed by those of the second
LayoutProducts(layout) ==
    [i \in 1..Len(layout[1] \o layout[2]) |-> [id |-> (layout[1] \o layout[2])[i]]]

\* The group named name with the products of the layout's n-th list
LayoutGroup(layout, n, name) ==
    [k |-> name,
     v |-> [name |-> name,
            products |-> [i \in 1..Len(layout[n]) |->
                            [k |-> layout[n][i],
                             v |-> IF n = 1 THEN i ELSE Len(layout[1]) + i]]]]

\* productClasses with the two groups, in one product class or in two
LayoutCatalog(layout, oneClass) ==
    IF oneClass
    THEN <<[k |-> "data-tabulation",
            v |-> [name |-> "data-tabulation",
                   productGroups |-> <<LayoutGroup(layout, 1, "sdtm"),
                                       LayoutGroup(layout, 2, "sdtmig")>>]]>>
    ELSE <<[k |-> "data-collection",
            v |-> [name |-> "data-collection",
                   productGroups |-> <<LayoutGroup(layout, 1, "cdash")>>]],
           [k |-> "data-tabulation",
            v |-> [name |-> "data-tabulation",
                   productGroups |-> <<LayoutGroup(layout, 2, "sdtmig")>>]]>>

\* cl.getProductIdByAlias(alias) on clients that hold such a catalog
LayoutApplications ==
    [fn : {"getProductIdByAlias"}, layout : Layouts, oneClass : BOOLEAN,
     alias : {IdSdtmig32, AliasSdtmig32, AliasUpper33}]

\* The code list as the API serves it
RawCodeList ==
    [conceptId |-> "C66742", name |-> "No Yes Response", extensible |-> "false",
     submissionValue |-> "NY", definition |-> "A term to indicate no or yes.",
     preferredTerm |-> "CDISC SDTM Yes No Unknown or Not Applicable Response Terminology",
     synonyms |-> <<"No Yes Response">>, terms |-> <<"N", "Y">>]

\* new CodeList({ href, coreObject }): the id is taken from the href, terms defaults to []
NewCodeList ==
    [conceptId |-> "C66742", name |-> Undefined, extensible |-> Undefined,
     submissionValue |-> Undefined, definition |-> Undefined, preferredTerm |-> Undefined,
     synonyms |-> None, terms |-> Some(<<>>)]

\* CodeList.parseResponse(clRaw) of an API response
CodeListParseResponse(codeList, clRaw) ==
    [conceptId |-> Field(clRaw, "conceptId"),
     name |-> Field(clRaw, "name"),
     extensible |-> IF Field(clRaw, "extensible") = "true" THEN "true"
                    ELSE IF Field(clRaw, "extensible") = "false" THEN "false"
                    ELSE codeList.extensible,
     submissionValue |-> Field(clRaw, "submissionValue"),
     definition |-> Field(clRaw, "definition"),
     preferredTerm |-> Field(clRaw, "preferredTerm"),
     synonyms |-> TextField(clRaw, "synonyms"),
     terms |-> TextField(clRaw, "terms")]

\* typeof response === 'object' in getRawResponse, for what apiRequest(link) returns
IsObject(result) == result \in {"json", "blank"}

\* A terminology package and the code lists the server has for it
HrefSdtmct == <<SegMdr, SegCt, <<"p","a","c","k","a","g","e","s">>, <<"s","d","t","m","c","t">>>>

CodeListIds == {"C66742", "C117745"}

\* The product listings of the package in the catalog: with the type the API gives, and
\* without one
TerminologyListings ==
    {[href |-> HrefSdtmct, title |-> "SDTM CT", type |-> "Terminology"],
     [href |-> HrefSdtmct, title |-> "SDTM CT"]}

\* The product ProductGroup.parseResponse makes of a listing, with its code lists
ListedProduct(gRaw) ==
    [href |-> NewProductFromListing(gRaw).obj.href,
     type |-> NewProductFromListing(gRaw).obj.type,
     fullyLoaded |-> NewProductFromListing(gRaw).obj.fullyLoaded,
     codelists |-> IF "codelists" \in NewProductFromListing(gRaw).fresh THEN Some(EmptyMap)
                   ELSE NewProductFromListing(gRaw).obj.codelists]

\* new CodeList({ href, preferredTerm, coreObject }): the id is what follows the last '/'
CodeListAt(href, preferredTerm) ==
    [NewCodeList EXCEPT !.conceptId = Last(href), !.preferredTerm = preferredTerm]
        @@ [href |-> Some(href)]

\* {href}/codelists/{id}
CodeListHref(prod, id) == TheValue(prod.href) \o <<TxtCodelists, id>>

\* What apiRequest returns for {href}/codelists: the listing, a listing without the
\* code lists, a body that is not JSON, or the blank object of a failed request
ListingLinks(ids) ==
    [i \in 1..Len(ids) |-> [href |-> HrefSdtmct \o <<TxtCodelists, ids[i]>>, title |-> ids[i]]]

ListingAnswers ==
    {[kind |-> "json", val |-> [links |-> [codelists |-> ListingLinks(ids)]]] :
        ids \in {<<>>, <<"C66742">>, <<"C66742", "C117745">>, <<"C117745", "C66742">>}}
        \union {[kind |-> "json", val |-> [name |-> "SDTM CT"]],
                [kind |-> "body", val |-> EmptyObject],
                [kind |-> "blank", val |-> EmptyObject]}

\* What apiRequest returns for {href}/codelists/{id}
CodeListAnswers(id) ==
    {[kind |-> "json", val |-> [RawCodeList EXCEPT !.conceptId = id]],
     [kind |-> "body", val |-> EmptyObject],
     [kind |-> "blank", val |-> EmptyObject]}

\* One entry of the list getCodeListList returns
CodeListEntry(codeList, type) ==
    IF type = "short"
    THEN [conceptId |-> codeList.conceptId, preferredTerm |-> codeList.preferredTerm]
    ELSE [conceptId |-> codeList.conceptId, preferredTerm |-> codeList.preferredTerm,
          href |-> codeList.href]

\* The code lists of the listing, by conceptId
ListedCodeLists(links) ==
    PutAll(EmptyMap,
           [i \in 1..Len(links) |->
               [k |-> CodeListAt(links[i].href, links[i].title).conceptId,
                v |-> CodeListAt(links[i].href, links[i].title)]])

\* The codelists mapping after the listing was looked at
CodeListsAfterListing(prod, answer) ==
    IF ~IsSome(prod.codelists) /\ answer.kind = "json" /\ HasOwn(answer.val, "links")
          /\ HasOwn(answer.val.links, "codelists")
    THEN Some(ListedCodeLists(answer.val.links.codelists))
    ELSE prod.codelists

\* Product.getCodeListList({ type }) with no format: the requests, the mapping the product
\* holds afterwards and what is returned; Object.values(undefined) throws a TypeError
GetCodeListList(prod, answer, type) ==
    [reqs |-> IF IsSome(prod.codelists) THEN <<>>
              ELSE <<TheValue(prod.href) \o <<TxtCodelists>>>>,
     codelists |-> CodeListsAfterListing(prod, answer),
     ret |-> IF IsSome(CodeListsAfterListing(prod, answer))
             THEN Returned([i \in 1..Len(TheValue(CodeListsAfterListing(prod, answer))) |->
                              CodeListEntry(
                                  TheValue(CodeListsAfterListing(prod, answer))[i].v, type)])
             ELSE ThrowTypeError]

\* codeList.load() and what follows it in getCodeList: ct is the code list found before
\* the request, if any
GetCodeListLoading(prod, codeListId, answer, ct) ==
    IF IsObject(answer.kind)
    THEN [reqs |-> <<CodeListHref(prod, codeListId)>>,
          codelists |->
              Some(Put(TheValue(prod.codelists),
                       Field(answer.val, "conceptId"),
                       CodeListParseResponse(
                           CodeListAt(CodeListHref(prod, codeListId), Undefined), answer.val)
                           @@ [href |-> Some(CodeListHref(prod, codeListId))])),
          ret |-> Returned(Some(
                      CodeListParseResponse(
                          CodeListAt(CodeListHref(prod, codeListId), Undefined), answer.val)
                          @@ [href |-> Some(CodeListHref(prod, codeListId))]))]
    ELSE [reqs |-> <<CodeListHref(prod, codeListId)>>, codelists |-> prod.codelists,
          ret |-> Returned(ct)]

\* Product.getCodeList(codeListId) with no format; this.codelists[codeListId] of a product
\* without the mapping and ct.terms.length of a code list without terms throw a TypeError
GetCodeList(prod, codeListId, answer) ==
    IF ~IsSome(prod.codelists)
    THEN [reqs |-> <<>>, codelists |-> prod.codelists, ret |-> ThrowTypeError]
    ELSE IF ~Has(TheValue(prod.codelists), codeListId)
    THEN IF ~prod.fullyLoaded THEN GetCodeListLoading(prod, codeListId, answer, None)
         ELSE [reqs |-> <<>>, codelists |-> prod.codelists, ret |-> Returned(None)]
    ELSE IF ~IsSome(Get(TheValue(prod.codelists), codeListId).terms)
    THEN [reqs |-> <<>>, codelists |-> prod.codelists, ret |-> ThrowTypeError]
    ELSE IF Len(TheValue(Get(TheValue(prod.codelists), codeListId).terms)) < 1
    THEN GetCodeListLoading(prod, codeListId, answer,
                            Some(Get(TheValue(prod.codelists), codeListId)))
    ELSE [reqs |-> <<>>, codelists |-> prod.codelists,
          ret |-> Returned(Some(Get(TheValue(prod.codelists), codeListId)))]

\* The product after an earlier call
ProductAfter(prod, result) == [prod EXCEPT !.codelists = result.codelists]

\* The states of the package a call finds: as listed, after its code lists were listed,
\* after a code list was loaded or failed to load, and fully loaded with one code list
CodeListProducts ==
    {ListedProduct(gRaw) : gRaw \in TerminologyListings}
        \union {ProductAfter(ListedProduct(gRaw), GetCodeListList(ListedProduct(gRaw), a, "long")) :
                   gRaw \in TerminologyListings,
                   a \in {b \in ListingAnswers :
                             b.kind = "json" /\ HasOwn(b.val, "links")
                                /\ Len(b.val.links.codelists) = 2}}
        \union {ProductAfter(ListedProduct(gRaw),
                             GetCodeList(ListedProduct(gRaw), "C66742", a)) :
                   gRaw \in {g \in TerminologyListings : HasOwn(g, "type")},
                   a \in CodeListAnswers("C66742")}
        \union {[ProductAfter(ListedProduct(gRaw),
                              GetCodeList(ListedProduct(gRaw), "C66742", a))
                    EXCEPT !.fullyLoaded = TRUE] :
                   gRaw \in {g \in TerminologyListings : HasOwn(g, "type")},
                   a \in {b \in CodeListAnswers("C66742") : b.kind = "json"}}

CodeListApplications ==
    [fn : {"getCodeListList"}, product : CodeListProducts, answer : ListingAnswers,
     type : {"short", "long"}]
        \union UNION {[fn : {"getCodeList"}, product : CodeListProducts, id : {id},
                       answer : CodeListAnswers(id)] : id \in CodeListIds}

Applications ==
    AliasApplications \union MatchApplications \union FindApplications
        \union TrafficApplications \union LayoutApplications \union CodeListApplications

\* A function is about to be applied to its arguments
InitFunctions ==
    /\ productClasses = None
    /\ catalogs = EmptyHeap
    /\ products = EmptyHeap
    /\ childMaps = EmptyHeap
    /\ calls = [c \in Callers |-> IdleCall]
    /\ opCount = 0
    /\ node = None
    /\ lastRaw = None
    /\ arg \in {Some(a) : a \in Applications}
    /\ out = None
    /\ graph = None
    /\ core = None

\* The application of fn has not returned yet
Pending(fn) == TheValue(arg).fn = fn /\ out = None

\* The application returns or throws
Applied(result) ==
    /\ out' = Some(result)
    /\ UNCHANGED <<productClasses, catalogs, products, childMaps, calls, opCount, node,
                   lastRaw, arg, graph, core>>

\* productGroup.getProductIdByAlias(alias)
ApplyGroupAlias ==
    /\ Pending("ProductGroup.getProductIdByAlias")
    /\ Applied(Returned(GroupGetProductIdByAlias(TheValue(arg).productList,
                                                 TheValue(arg).alias)))

\* productClass.getProductIdByAlias(alias)
ApplyClassAlias ==
    /\ Pending("ProductClass.getProductIdByAlias")
    /\ Applied(Returned(ClassGetProductIdByAlias(TheValue(arg).pc,
                                                 CatalogWorld("loaded").products,
                                                 TheValue(arg).alias)))

\* CdiscLibrary.getProductIdByAlias from the return of getProductClasses
RootAliasAfterCatalog(s, alias) ==
    IF IsSome(s.result)
    THEN RootGetProductIdByAlias(s.w.catalogs[TheValue(s.result)], s.w.products, alias)
    ELSE None

\* CdiscLibrary.getProductIdByAlias: the catalog is requested when none is resident
CdiscGetProductIdByAlias(w, response, alias) ==
    IF IsSome(w.productClasses)
    THEN RootGetProductIdByAlias(w.catalogs[TheValue(w.productClasses)], w.products, alias)
    ELSE RootAliasAfterCatalog(StoreCatalog(ApiRequest(response), w), alias)

\* cl.getProductIdByAlias(alias)
ApplyRootAlias ==
    /\ Pending("CdiscLibrary.getProductIdByAlias")
    /\ Applied(Returned(CdiscGetProductIdByAlias(CatalogWorld(TheValue(arg).catalog),
                                                 TheValue(arg).response,
                                                 TheValue(arg).alias)))

\* cl.getProductIdByAlias(alias) on a client that holds the catalog of the layout
ApplyLayoutAlias ==
    /\ Pending("getProductIdByAlias")
    /\ Applied(Returned(RootGetProductIdByAlias(
                            LayoutCatalog(TheValue(arg).layout, TheValue(arg).oneClass),
                            LayoutProducts(TheValue(arg).layout),
                            TheValue(arg).alias)))

\* matchItem(name, item, mode)
ApplyMatchItem ==
    /\ Pending("matchItem")
    /\ Applied(MatchItem(TheValue(arg).name, TheValue(arg).itemName, TheValue(arg).mode))

\* container.findMatchingItems(name, options)
ApplyFindMatchingItems ==
    /\ Pending("findMatchingItems")
    /\ Applied(Returned(FindMatchingItems(TheValue(arg).container, TheValue(arg).name,
                                          TheValue(arg).mode, TheValue(arg).firstOnly)))

\* cl.getTrafficStats(type, format) with the given counters in coreObject.traffic
ApplyTrafficStats ==
    /\ Pending("getTrafficStats")
    /\ Applied(GetTrafficStats([incoming |-> TheValue(arg).incoming,
                                outgoing |-> TheValue(arg).outgoing],
                               TheValue(arg).type, TheValue(arg).format))

\* product.getCodeListList({ type })
ApplyGetCodeListList ==
    /\ Pending("getCodeListList")
    /\ Applied(GetCodeListList(TheValue(arg).product, TheValue(arg).answer,
                               TheValue(arg).type))

\* product.getCodeList(id)
ApplyGetCodeList ==
    /\ Pending("getCodeList")
    /\ Applied(GetCodeList(TheValue(arg).product, TheValue(arg).id, TheValue(arg).answer))

NextFunctions ==
    \/ ApplyGetCodeListList
    \/ ApplyGetCodeList
    \/ ApplyTrafficStats
    \/ ApplyLayoutAlias
    \/ ApplyGroupAlias
    \/ ApplyClassAlias
    \/ ApplyRootAlias
    \/ ApplyMatchItem
    \/ ApplyFindMatchingItems

SpecFunctions == InitFunctions /\ [][NextFunctions]_vars

-----------------------------------------------------------------------------
(* Properties *)

\* The call of caller c settles in this step, from the request it was waiting on at pc
Settles(c, pc) == calls[c].pc = pc /\ calls'[c].pc = "done"

\* C1: additive splice.  When a point fetch of Product.getItemGroup succeeds, every item
\* group that was resident in the product before the step is still resident and, unless it
\* is the fetched one, unchanged; and the fetched item group X is in the owning collection:
\* the product's dataStructures, or the datasets of the class that the parentClass link of
\* the response names, which is created if the product did not have it.
C1_AdditiveSplice ==
    [][\A c \in Callers :
          (Settles(c, "awaitPoint") /\ calls'[c].ret.kind \in {"itemGroup", "formatted"})
          => LET ref    == TheValue(calls[c].prod)
                 raw    == ServerAnswer(calls[c].href).body
                 X      == ParsePointResponse(products[ref], calls[c].href, raw)
                 before == GetCurrentItemGroups(products[ref], childMaps)
                 after  == GetCurrentItemGroups(products'[ref], childMaps')
                 owner  == IF IsSome(products'[ref].dataStructures)
                           THEN Some(DataStructuresOf(products'[ref], childMaps'))
                           ELSE IF Has(DataClassesOf(products'[ref], childMaps'),
                                       Last(raw.links.parentClass.href))
                           THEN Get(DataClassesOf(products'[ref], childMaps'),
                                    Last(raw.links.parentClass.href)).datasets
                           ELSE None
             IN  /\ \A i \in 1..Len(before) :
                       /\ Has(after, before[i].k)
                       /\ before[i].k # X.id => Get(after, before[i].k) = before[i].v
                 /\ IsSome(owner)
                 /\ Has(TheValue(owner), X.id)
                 /\ Get(TheValue(owner), X.id) = X
                 /\ Has(after, X.id)
                 /\ products'[ref] = products[ref]]_vars

\* A point fetch has settled on a product that is not fully loaded and that now has a class
\* with two datasets, and on one that has two data structures
C1_Witness ==
    \E c \in Callers :
        /\ calls[c].op = "Product.getItemGroup"
        /\ calls[c].pc = "done"
        /\ calls[c].reqs # <<>>
        /\ calls[c].ret.kind = "itemGroup"
        /\ ~products[TheValue(calls[c].prod)].fullyLoaded
        /\ IsSome(products[TheValue(calls[c].prod)].dataClasses)
        /\ \E i \in 1..Len(DataClassesOf(products[TheValue(calls[c].prod)], childMaps)) :
              Len(TheValue(DataClassesOf(products[TheValue(calls[c].prod)],
                                         childMaps)[i].v.datasets)) = 2

\* The entries [k |-> product id, v |-> reference] of all groups of a catalog
CatalogEntries(catalog) ==
    UNION {UNION {{pg.v.products[n] : n \in 1..Len(pg.v.products)} :
                  pg \in {pc.v.productGroups[j] : j \in 1..Len(pc.v.productGroups)}} :
           pc \in {catalog[i] : i \in 1..Len(catalog)}}

\* The ids of the products that are fully loaded in the catalog the client holds
FullyLoadedIn(pcRef, cats, ps) ==
    IF IsSome(pcRef)
    THEN {e.k : e \in {x \in CatalogEntries(cats[TheValue(pcRef)]) : ps[x.v].fullyLoaded}}
    ELSE {}

\* C2: the load state only moves forward.  In every step other than reset() (the step that
\* leaves the client without a catalog), every product that is fully loaded in the catalog
\* of the client is fully loaded in the catalog of the client after the step.
C2_LoadStateOnlyMovesForward ==
    [][productClasses' # None =>
          FullyLoadedIn(productClasses, catalogs, products)
              \subseteq FullyLoadedIn(productClasses', catalogs', products')]_vars

\* C3: not found versus failure.  Whenever Product.getItemGroup awaits the answer for a
\* locator the server has no item group for, the value the call returns on the server's
\* not-found answer differs from the value it returns when the request fails in transport.
C3_NotFoundDistinctFromFailure ==
    \A c \in Callers :
        (calls[c].pc = "awaitPoint" /\ ServerAnswer(calls[c].href).outcome = "notfound")
        => PointOutcome(calls[c], products[TheValue(calls[c].prod)], childMaps,
                        ApiRequest(ServerAnswer(calls[c].href))).ret
           # PointOutcome(calls[c], products[TheValue(calls[c].prod)], childMaps,
                          ApiRequest(TransportFailure)).ret

\* The call of caller c takes a step: its record changes in more than the note of a reset()
Moves(c) == [calls'[c] EXCEPT !.reset = FALSE] # [calls[c] EXCEPT !.reset = FALSE]

\* The operation that caller c starts in this step
Starts(c, op) == opCount' = opCount + 1 /\ Moves(c) /\ calls'[c].op = op

\* C4: when Product.getItemGroup(name) is called on a product in which an item group whose
\* name equals name but for the case of its letters is resident, the call settles at once
\* without a request and returns that item group (its items in the asked format, when a
\* format is given).
C4_ResidentCaseInsensitive ==
    [][\A c \in Callers :
          Starts(c, "Product.getItemGroup")
          => LET prod == products[TheValue(calls'[c].prod)]
                 resident == GetCurrentItemGroups(prod, childMaps)
             IN  \A i \in 1..Len(resident) :
                    ToLowerCase(resident[i].v.name) = ToLowerCase(calls'[c].name)
                    => /\ calls'[c].pc = "done"
                       /\ calls'[c].reqs = <<>>
                       /\ calls'[c].format = Undefined
                          => calls'[c].ret = [kind |-> "itemGroup", val |-> resident[i].v]
                       /\ calls'[c].format # Undefined
                          => calls'[c].ret =
                                [kind |-> "formatted",
                                 val |-> GetFormattedItems(resident[i].v, calls'[c].format,
                                                           FALSE)]]_vars

\* getItemGroup('adsl') has returned the resident ADSL without a request
C4_Witness ==
    \E c \in Callers :
        /\ calls[c].op = "Product.getItemGroup"
        /\ calls[c].pc = "done"
        /\ calls[c].name = ToLowerCase(NameADSL)
        /\ calls[c].reqs = <<>>
        /\ calls[c].ret.kind = "itemGroup"
        /\ calls[c].ret.val.name = NameADSL

\* Caller c settles its call in this step
SettlesNow(c) == Moves(c) /\ calls'[c].pc = "done"

\* C5: when a call of Product.getItemGroups with type 'long' and no format settles, be it at
\* once on a fully loaded product or after the full load it performs, it returns the mapping
\* of all item groups the product then holds, and the product is fully loaded.
C5_LongReturnsAllItemGroups ==
    [][\A c \in Callers :
          (/\ SettlesNow(c)
           /\ calls'[c].op = "Product.getItemGroups"
           /\ calls'[c].type = "long"
           /\ calls'[c].format = Undefined)
          => /\ products'[TheValue(calls'[c].prod)].fullyLoaded
             /\ calls'[c].ret =
                   [kind |-> "itemGroups",
                    val |-> GetCurrentItemGroups(products'[TheValue(calls'[c].prod)],
                                                 childMaps')]]_vars

\* A product with the mappings of its children
ProductState(ref, ps, ms) == [product |-> ps[ref], maps |-> Restrict(ms, ProductMaps(ps[ref]))]

ItemGroupsOps == {"Product.getItemGroups", "ProductGroup.getItemGroups"}

\* C6: a call of getItemGroups with type 'short' leaves every product with its flag and its
\* children as they were, in each of its steps.  Started on a product that is not fully
\* loaded it issues one request, of {href}/{datasetType in lower case}, and none after it;
\* started on a fully loaded product it settles at once without a request.
C6_ShortChangesNothing ==
    [][\A c \in Callers :
          (/\ Moves(c)
           /\ calls'[c].op \in ItemGroupsOps
           /\ calls'[c].type = "short")
          => /\ \A ref \in DOMAIN products \intersect DOMAIN products' :
                   ProductState(ref, products', childMaps')
                       = ProductState(ref, products, childMaps)
             /\ TheValue(calls'[c].prod) \in DOMAIN products \intersect DOMAIN products'
             /\ (opCount' = opCount + 1 /\ products[TheValue(calls'[c].prod)].fullyLoaded)
                => calls'[c].pc = "done" /\ calls'[c].reqs = <<>>
             /\ (opCount' = opCount + 1 /\ ~products[TheValue(calls'[c].prod)].fullyLoaded)
                => /\ calls'[c].pc = "awaitListing"
                   /\ calls'[c].reqs =
                         <<Append(TheValue(products[TheValue(calls'[c].prod)].href),
                                  ToLowerCase(TheValue(
                                      products[TheValue(calls'[c].prod)].datasetType)))>>
             /\ opCount' = opCount
                => /\ calls[c].pc = "awaitListing"
                   /\ calls'[c].pc = "done"
                   /\ calls'[c].reqs = calls[c].reqs]_vars

\* A short listing of a product that is not fully loaded has been returned after one request
C6_Witness ==
    \E c \in Callers :
        /\ calls[c].op = "Product.getItemGroups"
        /\ calls[c].type = "short"
        /\ calls[c].pc = "done"
        /\ Len(calls[c].reqs) = 1
        /\ calls[c].ret.kind = "shortList"
        /\ Len(calls[c].ret.val) = 2
        /\ ~products[TheValue(calls[c].prod)].fullyLoaded

\* The item group carries items
HasItems(group) ==
    IF group.class = "DataStructure" THEN Len(DataStructureGetItems(group)) > 0
    ELSE Len(ItemGroupGetItems(group)) > 0

\* The products that caller c loads in full, as entries of the catalog the client holds
LoadedBy(c) ==
    IF IsSome(productClasses)
    THEN {e \in CatalogEntries(catalogs[TheValue(productClasses)]) :
            \/ calls[c].pc = "awaitDetail" /\ calls[c].cat = productClasses
                  /\ e.k = calls[c].pid
            \/ calls[c].pc = "awaitProduct" /\ calls[c].prod = Some(e.v)}
    ELSE {}

\* C7: no child is lost by a full load.  When the full load of a product of the catalog
\* succeeds, the catalog holds under the same id a product that is fully loaded and in which
\* every item group that was resident before is found under its name, with items.
C7_NoChildLostByFullLoad ==
    [][\A c \in Callers :
          (calls[c].pc \in {"awaitDetail", "awaitProduct"} /\ SettlesNow(c)
              /\ calls'[c].cause = "ok")
          => \A e \in LoadedBy(c) :
                /\ productClasses' = productClasses
                /\ \E f \in CatalogEntries(catalogs'[TheValue(productClasses')]) :
                      /\ f.k = e.k
                      /\ products'[f.v].fullyLoaded
                      /\ LET before == GetCurrentItemGroups(products[e.v], childMaps)
                             after == GetCurrentItemGroups(products'[f.v], childMaps')
                         IN  \A i \in 1..Len(before) :
                                \E j \in 1..Len(after) :
                                   /\ after[j].v.name = before[i].v.name
                                   /\ HasItems(after[j].v)]_vars

\* getFullProduct has loaded a product in which an item group was resident already
C7_Witness ==
    \E c \in Callers :
        /\ calls[c].op = "getFullProduct"
        /\ calls[c].pc = "done"
        /\ calls[c].cause = "ok"
        /\ calls[c].resident # {}
        /\ calls[c].ret.kind = "product"
        /\ products[calls[c].ret.val].fullyLoaded
        /\ IsSome(productClasses)
        /\ calls[c].ret.val \in CatalogProducts(catalogs[TheValue(productClasses)])

\* C9: getFullProduct(alias) issues a detail request only for a product that is not fully
\* loaded: in the step in which the call sends the request of the product, the product the
\* group holds is not fully loaded.
C9_NoDetailRequestWhenLoaded ==
    [][\A c \in Callers :
          (/\ calls'[c].op = "getFullProduct"
           /\ ~calls'[c].basic
           /\ calls[c].pc # "awaitDetail"
           /\ calls'[c].pc = "awaitDetail")
          => ~products'[Get(GroupOf(catalogs'[TheValue(calls'[c].cat)], calls'[c].pcId,
                                    calls'[c].pgId).products,
                            calls'[c].pid)].fullyLoaded]_vars

\* The product the catalog of the client holds for the alias
HeldFor(pcRef, cats, ps, alias) ==
    IF IsSome(pcRef) /\ IsSome(RootGetProductIdByAlias(cats[TheValue(pcRef)], ps, alias))
    THEN LET id == TheValue(RootGetProductIdByAlias(cats[TheValue(pcRef)], ps, alias))
         IN  Some(Get(GroupOf(cats[TheValue(pcRef)], id.productClassId,
                              id.productGroupId).products, id.productId))
    ELSE None

\* The steps of getFullProduct(alias, true) request nothing but the catalog and change no
\* product
BasicFrame(c) ==
    /\ \A i \in 1..Len(calls'[c].reqs) : calls'[c].reqs[i] = CatalogHref
    /\ (opCount' = opCount + 1 /\ IsSome(productClasses))
       => calls'[c].pc = "done" /\ calls'[c].reqs = <<>>
    /\ \A ref \in DOMAIN products \intersect DOMAIN products' :
          ProductState(ref, products', childMaps') = ProductState(ref, products, childMaps)

\* C10: getFullProduct(alias, true) requests nothing but the catalog, and that only when the
\* client holds none, and changes no product; when it settles and the catalog of the client
\* holds a product for the alias, it returns that very object.
C10_BasicReturnsCatalogObject ==
    [][\A c \in Callers :
          (Moves(c) /\ calls'[c].op = "getFullProduct" /\ calls'[c].basic)
          => /\ BasicFrame(c)
             /\ (calls'[c].pc = "done"
                    /\ IsSome(HeldFor(productClasses', catalogs', products', calls'[c].alias)))
                => calls'[c].ret =
                      [kind |-> "product",
                       val |-> TheValue(HeldFor(productClasses', catalogs', products',
                                                calls'[c].alias))]]_vars

\* The child collections of a node, each under the key a response carries it under
CollectionsOf(n) ==
    IF n.kind = "Product"
    THEN LET p == n.w.products[n.ref]
         IN  <<[k |-> "dataStructures",
                v |-> IF IsSome(p.dataStructures)
                      THEN Some(DataStructuresOf(p, n.w.childMaps)) ELSE None],
               [k |-> "classes",
                v |-> IF IsSome(p.dataClasses)
                      THEN Some(DataClassesOf(p, n.w.childMaps)) ELSE None]>>
    ELSE IF n.kind = "DataClass"
    THEN <<[k |-> "datasets", v |-> n.obj.datasets], [k |-> "domains", v |-> n.obj.domains],
           [k |-> "classVariables", v |-> n.obj.classVariables],
           [k |-> "cdashModelFields", v |-> n.obj.cdashModelFields]>>
    ELSE IF n.kind = "DataStructure"
    THEN <<[k |-> "analysisVariableSets", v |-> n.obj.analysisVariableSets]>>
    ELSE <<[k |-> n.obj.itemType, v |-> Some(n.obj.items)]>>

\* The names of the children in a collection (a data class holds a name or none)
ChildNames(collection) ==
    IF IsSome(collection)
    THEN {IF "ordinal" \in DOMAIN TheValue(collection)[i].v
          THEN TheValue(TheValue(collection)[i].v.name)
          ELSE TheValue(collection)[i].v.name : i \in 1..Len(TheValue(collection))}
    ELSE {}

\* The names of the children a response carries under the key
NamesIn(raw, key) ==
    IF HasOwn(raw, key) THEN {raw[key][i].name : i \in 1..Len(raw[key])} ELSE {}

\* The scalar fields of the node are those of the response
ScalarsFrom(n, raw) ==
    IF n.kind = "Product"
    THEN LET p == n.w.products[n.ref]
         IN  /\ p.name = Field(raw, "name")
             /\ p.description = Field(raw, "description")
             /\ p.source = Field(raw, "source")
             /\ p.effectiveDate = Field(raw, "effectiveDate")
             /\ p.registrationStatus = Field(raw, "registrationStatus")
             /\ p.version = TextField(raw, "version")
    ELSE IF n.kind = "DataClass"
    THEN /\ n.obj.name = TextField(raw, "name")
         /\ n.obj.ordinal = Field(raw, "ordinal")
         /\ n.obj.label = Field(raw, "label")
         /\ n.obj.description = Field(raw, "description")
    ELSE IF n.kind = "DataStructure"
    THEN /\ n.obj.name = raw.name
         /\ n.obj.label = Field(raw, "label")
         /\ n.obj.description = Field(raw, "description")
         /\ n.obj.className = Field(raw, "className")
    ELSE /\ n.obj.name = raw.name
         /\ n.obj.label = Field(raw, "label")
         /\ n.obj.description = Field(raw, "description")

AppliedFn(fn) == IsSome(arg) /\ IsSome(out) /\ TheValue(arg).fn = fn

\* The first element of list that passes the test and that no earlier element passes
FirstThat(list, Test(_)) ==
    list[CHOOSE i \in 1..Len(list) : Test(list[i]) /\ \A j \in 1..(i - 1) : ~Test(list[j])]

EqualIgnoringCase(a, b) == ToUpperCase(a) = ToUpperCase(b)

EqualStripped(a, b) == StripPunct(ToUpperCase(a)) = StripPunct(ToUpperCase(b))

ContainsStripped(id, a) == Includes(StripPunct(ToUpperCase(id)), StripPunct(ToUpperCase(a)))

\* What the three tiers give for a list of ids and an alias
TierAnswer(list, alias) ==
    IF \E i \in 1..Len(list) : EqualIgnoringCase(list[i], alias)
    THEN Some(FirstThat(list, LAMBDA id : EqualIgnoringCase(id, alias)))
    ELSE IF \E i \in 1..Len(list) : EqualStripped(list[i], alias)
    THEN Some(FirstThat(list, LAMBDA id : EqualStripped(id, alias)))
    ELSE IF \E i \in 1..Len(list) : ContainsStripped(list[i], alias)
    THEN Some(FirstThat(list, LAMBDA id : ContainsStripped(id, alias)))
    ELSE None

InGroup(id, list) == \E i \in 1..Len(list) : list[i] = id

\* C11: the alias tiers inside one product group.  ProductGroup.getProductIdByAlias returns,
\* comparing without regard to case, an id equal to the alias if there is one; otherwise an
\* id equal to the alias once '-', '.' and space are removed from both; otherwise the first
\* id whose stripped form contains the stripped alias.  With 'sdtmig-3-2' in the group, the
\* aliases 'sdtmig-3-2', 'SDTM-IG 3.2' and 'sdtmig32' all resolve to 'sdtmig-3-2'.
C11_AliasTiers ==
    AppliedFn("ProductGroup.getProductIdByAlias")
    => /\ TheValue(out).kind = "return"
       /\ TheValue(out).val = TierAnswer(TheValue(arg).productList, TheValue(arg).alias)
       /\ (/\ InGroup(IdSdtmig32, TheValue(arg).productList)
           /\ TheValue(arg).alias \in {IdSdtmig32, AliasSdtmIg32, AliasSdtmig32})
          => TheValue(out).val = Some(IdSdtmig32)

\* 'SDTM-IG 3.2' was resolved, by the second tier, in a group that lists another id first
C11_Witness ==
    /\ AppliedFn("ProductGroup.getProductIdByAlias")
    /\ TheValue(arg).alias = AliasSdtmIg32
    /\ TheValue(arg).productList = <<IdSdtmig33, IdSdtmig32>>
    /\ TheValue(out) = Returned(Some(IdSdtmig32))

\* No id of the list equals the alias, equals it after stripping, or contains it after
\* stripping
UnknownAlias(ids, alias) ==
    \A i \in 1..Len(ids) :
        /\ ~EqualIgnoringCase(ids[i], alias)
        /\ ~EqualStripped(ids[i], alias)
        /\ ~ContainsStripped(ids[i], alias)

\* The ids of the products the level the function was applied at can see
IdsInScope ==
    IF AppliedFn("ProductGroup.getProductIdByAlias") THEN TheValue(arg).productList
    ELSE IF AppliedFn("ProductClass.getProductIdByAlias")
    THEN IF TheValue(arg).pc.name = "data-analysis" THEN <<IdAdamig11>>
         ELSE IF TheValue(arg).pc.name = "data-tabulation" THEN <<IdSdtmig32>>
         ELSE <<>>
    ELSE IF \/ TheValue(arg).catalog = "loaded"
            \/ /\ TheValue(arg).catalog = "notLoaded"
               /\ TheValue(arg).response = ServerAnswer(CatalogHref)
    THEN <<IdAdamig11, IdSdtmig32>>
    ELSE <<>>

AliasFns ==
    {"ProductGroup.getProductIdByAlias", "ProductClass.getProductIdByAlias",
     "CdiscLibrary.getProductIdByAlias"}

\* C12: an alias that no product id equals, equals after stripping, or contains after
\* stripping yields undefined from getProductIdByAlias of a product group, of a product
\* class and of the client, and none of these calls throws, whether the catalog is not
\* loaded, empty or loaded.
C12_UnknownAliasUndefined ==
    (IsSome(arg) /\ IsSome(out) /\ TheValue(arg).fn \in AliasFns)
    => /\ TheValue(out).kind = "return"
       /\ UnknownAlias(IdsInScope, TheValue(arg).alias) => TheValue(out).val = None

\* The client resolved an alias that matches no id of the catalog it had to request first
C12_Witness ==
    /\ AppliedFn("CdiscLibrary.getProductIdByAlias")
    /\ TheValue(arg).catalog = "notLoaded"
    /\ TheValue(arg).response = ServerAnswer(CatalogHref)
    /\ TheValue(arg).alias = AliasUnknown
    /\ UnknownAlias(IdsInScope, TheValue(arg).alias)
    /\ TheValue(out) = Returned(None)

\* matchItem was applied in this mode
Matched(mode) == AppliedFn("matchItem") /\ TheValue(arg).mode = mode

\* The positions of the name that can follow one character of a template, read as the
\* template language describes it
AfterPlaceholder(c, from, name) ==
    LET digitAt(i) == i <= Len(name) /\ IsDigit(name[i])
        wordAt(i) == i <= Len(name) /\ IsWord(name[i])
    IN  IF c \in {"w", "x", "z"} THEN {i + 1 : i \in {j \in from : digitAt(j)}}
        ELSE IF c = "y"
        THEN {i + 1 : i \in {j \in from : digitAt(j)}}
                 \union {i + 2 : i \in {j \in from : digitAt(j) /\ digitAt(j + 1)}}
        ELSE IF c = "*"
        THEN {k \in 2..(Len(name) + 1) :
                 \E i \in from : i < k /\ \A m \in i..(k - 1) : wordAt(m)}
        ELSE IF c = "-" THEN {i + 1 : i \in {j \in from : wordAt(j)}}
        ELSE {i + 1 : i \in {j \in from : j <= Len(name) /\ UpperChar(name[j]) = UpperChar(c)}}

RECURSIVE FitsFrom(_, _, _)
FitsFrom(template, from, name) ==
    IF template = <<>> THEN (Len(name) + 1) \in from
    ELSE FitsFrom(Tail(template), AfterPlaceholder(Head(template), from, name), name)

\* The whole name fits the template
FitsTemplate(name, template) == FitsFrom(template, {1}, name)

\* C13: full-mode matching.  matchItem(name, item, 'full') is true exactly when the name,
\* compared without regard to case and over its whole length, fits item.name read as a
\* template in which each w, x or z stands for one digit, y for one or two digits, * for
\* one or more word characters and - for one word character; 'TR01PG12' and 'TR12PG1'
\* match 'TRxxPGy', 'TR1PG12' does not.
C13_FullModeTemplate ==
    Matched("full")
    => /\ TheValue(out).kind = "return"
       /\ TheValue(out).val = FitsTemplate(TheValue(arg).name, TheValue(arg).itemName)

\* C14: direction of containment in partial mode.  For a template without '*' or '-',
\* matchItem(name, item, 'partial') is true when the template contains the name; a template
\* with no placeholder letter matches no name it does not contain, so 'AVAL' matches the
\* template 'AVALC' and 'AVALC' does not match the template 'AVAL'.
C14_PartialContainment ==
    (Matched("partial") /\ ~HasAny(TheValue(arg).itemName, {"*", "-"}))
    => /\ TheValue(out).kind = "return"
       /\ Includes(TheValue(arg).itemName, TheValue(arg).name) => TheValue(out).val
       /\ ~HasAny(TheValue(arg).itemName, {"w", "x", "y", "z"})
          => (TheValue(out).val = Includes(TheValue(arg).itemName, TheValue(arg).name))
       /\ (TheValue(arg).name = TplAVAL /\ TheValue(arg).itemName = TplAVALC)
          => TheValue(out).val
       /\ (TheValue(arg).name = TplAVALC /\ TheValue(arg).itemName = TplAVAL)
          => ~TheValue(out).val

\* 'AVAL' was matched against the template 'AVALC' in partial mode, and matched
C14_Witness ==
    /\ Matched("partial")
    /\ TheValue(arg).name = TplAVAL
    /\ TheValue(arg).itemName = TplAVALC
    /\ TheValue(out).kind = "return"
    /\ TheValue(out).val

\* C15: for every template that contains '*' or '-' and every name, matchItem in partial
\* mode returns what it returns in full mode.
C15_PartialFallsBackToFull ==
    (Matched("partial") /\ HasAny(TheValue(arg).itemName, {"*", "-"}))
    => TheValue(out) = MatchItem(TheValue(arg).name, TheValue(arg).itemName, "full")

\* 'AETEST' was matched against '--TEST' in partial mode and matched, as in full mode,
\* although the template does not contain the name
C15_Witness ==
    /\ Matched("partial")
    /\ TheValue(arg).name = NameAETEST
    /\ TheValue(arg).itemName = TplDashTEST
    /\ ~Includes(TheValue(arg).itemName, TheValue(arg).name)
    /\ TheValue(out).kind = "return"
    /\ TheValue(out).val

C17_FirstOnlyAtMostOne ==
    (AppliedFn("findMatchingItems") /\ TheValue(arg).firstOnly)
    => Len(TheValue(out).val) <= 1

-----------------------------------------------------------------------------
(* Soft failure of the catalog request *)

\* The call has settled
Settled(c, ops) == calls[c].pc = "done" /\ calls[c].op \in ops

\* A request of the catalog by the call failed: the last answer it got was a failure of
\* that request, or it sent the request again, which it does only after a failure
CatalogRequestFailed(call) ==
    /\ call.reqs # <<>>
    /\ \/ Last(call.reqs) = CatalogHref /\ call.cause # "ok"
       \/ Len(SelectSeq(call.reqs, LAMBDA href : href = CatalogHref)) > 1

CatalogAccessors ==
    {"getProductClasses", "getProductIdByAlias", "getFullProduct", "getProductGroupList",
     "getProductList", "getProductDetails"}

\* What the accessor returns when it has nothing
EmptyOutcome(op) ==
    IF op = "getProductClasses" THEN [kind |-> "productClasses", val |-> None]
    ELSE IF op \in {"getProductIdByAlias", "getFullProduct"} THEN ReturnUndefined
    ELSE ReturnList(<<>>)

SameOutcome(ret, expected) == ret.kind = expected.kind /\ ret.val = expected.val

SoftFailure(ops) ==
    \A c \in Callers :
        Settled(c, ops) /\ CatalogRequestFailed(calls[c])
            => SameOutcome(calls[c].ret, EmptyOutcome(calls[c].op))

\* C18: a catalog accessor (getProductClasses, getProductIdByAlias, getFullProduct,
\* getProductGroupList, getProductList, getProductDetails) whose request of /mdr/products
\* failed returns its empty value (the blank mapping, undefined, the empty list) and does
\* not throw
C18_CatalogSoftFailure == SoftFailure(CatalogAccessors)

\* The call returned undefined, null, or a mapping without item groups
NothingReturned(ret) ==
    \/ ret.kind \in {"undefined", "null"}
    \/ ret.kind \in {"shortList", "itemGroups"} /\ ret.val = EmptyMap

\* C19: when the catalog request of CdiscLibrary.getItemGroup or CdiscLibrary.getItemGroups
\* fails and the client holds no catalog, the call completes without throwing and returns
\* undefined or an empty result
C19_ItemGroupSoftFailure ==
    [][\A c \in Callers :
          (/\ calls[c].op \in ItemGroupOps
           /\ calls[c].pc = "awaitRootCatalog"
           /\ ~IsSome(productClasses)
           /\ calls'[c].pc # "awaitRootCatalog"
           /\ calls'[c].cause # "ok")
          => calls'[c].pc = "done" /\ NothingReturned(calls'[c].ret)]_vars

\* C20: Product.getItemGroups with type 'short' on a product that is not fully loaded, whose
\* request of the listing fails, returns an empty result without item groups and does not
\* throw
C20_ShortListingSoftFailure ==
    \A c \in Callers :
        (/\ Settled(c, {"Product.getItemGroups"})
         /\ calls[c].type = "short"
         /\ calls[c].reqs # <<>>
         /\ calls[c].cause # "ok")
        => calls[c].ret.kind = "shortList" /\ calls[c].ret.val = EmptyMap

-----------------------------------------------------------------------------
(* Concurrent calls *)

\* Caller c has fetched an item group of a product by Product.getItemGroup
Fetched(call) ==
    /\ call.op = "Product.getItemGroup"
    /\ call.pc = "done"
    /\ call.reqs # <<>>
    /\ call.ret.kind = "itemGroup"

\* C21: concurrent point fetches of different children.  A call of a caller begins while
\* the other caller has a call in flight, so two fetches of the two callers overlap.  In the
\* step in which the fetch of Y settles while the fetch of X of the other caller has settled
\* on the same product and X is still resident, the product holds X and Y and every item
\* group it held before the step.
C21_ConcurrentPointFetches ==
    [][\A c, d \in Callers :
          (/\ c # d
           /\ Settles(c, "awaitPoint")
           /\ calls'[c].ret.kind = "itemGroup"
           /\ Fetched(calls[d])
           /\ calls[d].prod = calls[c].prod
           /\ ToUpperCase(calls[d].name) # ToUpperCase(calls[c].name)
           /\ Has(GetCurrentItemGroups(products[TheValue(calls[c].prod)], childMaps),
                  calls[d].ret.val.id))
          => LET ref    == TheValue(calls[c].prod)
                 before == GetCurrentItemGroups(products[ref], childMaps)
                 after  == GetCurrentItemGroups(products'[ref], childMaps')
             IN  /\ Has(after, calls[d].ret.val.id)
                 /\ Get(after, calls[d].ret.val.id) = calls[d].ret.val
                 /\ Has(after, calls'[c].ret.val.id)
                 /\ Get(after, calls'[c].ret.val.id) = calls'[c].ret.val
                 /\ calls'[c].ret.val.id # calls[d].ret.val.id
                 /\ \A i \in 1..Len(before) : Has(after, before[i].k)]_vars

\* The fetch of the second caller, begun while the fetch of the first was in flight, has
\* settled, and the product holds two item groups
C21_Witness ==
    /\ Fetched(calls["c2"])
    /\ opCount = 3
    /\ Len(GetCurrentItemGroups(products[TheValue(calls["c2"].prod)], childMaps)) = 2

\* The aliases of two distinct products
TwoAliases == {AliasAdamig11, AliasSdtmig32}

\* A program that asks a client for whole products only
NextTwoProducts ==
    \/ \E c \in Callers, alias \in TwoAliases : GetFullProduct(c, alias, FALSE)
    \/ \E c \in Callers : \E response \in Responses(calls[c].href) :
          \/ ReceiveFirstCatalog(c, response)
          \/ ReceiveAliasCatalog(c, response)
          \/ ReceiveDetail(c, response)

SpecTwoProducts == Init /\ [][NextTwoProducts]_vars

\* The call began on a client without a catalog, requested the catalog and then the product,
\* and both requests succeeded
LoadedFromFresh(call) ==
    /\ call.op = "getFullProduct"
    /\ call.pc = "done"
    /\ Len(call.reqs) = 2
    /\ call.reqs[1] = CatalogHref
    /\ call.cause = "ok"

\* C22: concurrent top-level requests on a fresh client.  No call settles with a product
\* before the catalog is resident, and the catalog stays resident, so two calls that both
\* requested the catalog were in flight together.  In the step in which the second of two
\* such calls for distinct products settles, all requests having succeeded, neither call
\* has thrown and both products are fully loaded in the catalog the client holds.
C22_ConcurrentFullProducts ==
    [][\A c, d \in Callers :
          (/\ c # d
           /\ calls[c].pc = "awaitDetail"
           /\ LoadedFromFresh(calls'[c])
           /\ LoadedFromFresh(calls[d])
           /\ calls[c].alias # calls[d].alias)
          => /\ calls'[c].ret.kind = "product"
             /\ calls[d].ret.kind = "product"
             /\ {products'[calls'[c].ret.val].id, products[calls[d].ret.val].id}
                    \subseteq FullyLoadedIn(productClasses', catalogs', products')]_vars

-----------------------------------------------------------------------------
(* Formatted item groups *)

\* The column of the name in the csv output, where it has one
ColumnOf(csv, name) ==
    IF \E j \in 1..Len(csv.header) : csv.header[j] = name
    THEN Some(CHOOSE j \in 1..Len(csv.header) : csv.header[j] = name)
    ELSE None

\* C23: Product.getItemGroup with format 'csv' returns records that each carry an itemGroup
\* column holding the id of the requested item group
C23_CsvCarriesItemGroup ==
    \A c \in Callers :
        (/\ Settled(c, {"Product.getItemGroup"})
         /\ calls[c].format = "csv"
         /\ calls[c].ret.kind = "formatted")
        => /\ IsSome(ColumnOf(calls[c].ret.val, "itemGroup"))
           /\ \A i \in 1..Len(calls[c].ret.val.lines) :
                 calls[c].ret.val.lines[i][TheValue(ColumnOf(calls[c].ret.val, "itemGroup"))]
                     = Some(Some(ToUpperCase(calls[c].name)))

-----------------------------------------------------------------------------
(* The coreObject of the nodes of a catalog *)

\* The CoreObject instance the CdiscLibrary constructs for itself
TheCore == "CoreObject"

\* A node of the catalog: the coreObject it holds, whether it is flagged as fully loaded, and
\* the nodes it holds, by key
CoreNode(coreObject, fullyLoaded, children) ==
    [coreObject |-> coreObject, fullyLoaded |-> fullyLoaded, children |-> children]

\* The products the API lists in /mdr/products, by class and group
CoreListing ==
    <<[k |-> "data-analysis", v |-> <<[k |-> "adam", v |-> <<"adamig-1-1">>]>>],
      [k |-> "terminology", v |-> <<[k |-> "packages", v |-> <<"sdtmct-2020-03-27">>]>>]>>

\* The packages the pages of the NCI site list
NciPackages == <<"sdtmct-2020-03-27", "adamct-2019-12-20">>

\* The children the API holds of a product: item groups, or the code lists of a package
CoreChildrenOf(id) == IF id = "adamig-1-1" THEN <<"ADSL", "BDS">> ELSE <<"C66742", "C66731">>

\* new X({ ..., coreObject }) for every key, with nothing loaded
NewNodes(keys, coreObject) ==
    [i \in 1..Len(keys) |-> [k |-> keys[i], v |-> CoreNode(coreObject, FALSE, <<>>)]]

\* ProductGroup.parseResponse: new Product({ ...gRaw, coreObject: this.coreObject })
ListedGroup(coreObject, ids) == CoreNode(coreObject, FALSE, NewNodes(ids, coreObject))

\* ProductClass.parseResponse: new ProductGroup({ coreObject: this.coreObject })
ListedClass(coreObject, groups) ==
    CoreNode(coreObject, FALSE,
             [j \in 1..Len(groups) |->
                 [k |-> groups[j].k, v |-> ListedGroup(coreObject, groups[j].v)]])

\* getProductClasses: new ProductClass({ coreObject: this.coreObject }) for every class
ListedCatalog(coreObject) ==
    [i \in 1..Len(CoreListing) |->
        [k |-> CoreListing[i].k, v |-> ListedClass(coreObject, CoreListing[i].v)]]

\* getCTFromNCISite: new Product({ id, href, ... }) for every package, without a coreObject
NciProducts == NewNodes(NciPackages, Undefined)

\* this.productClasses?.terminology?.productGroups?.packages?.products !== undefined
HasPackages(pcs) ==
    /\ IsSome(pcs)
    /\ Has(TheValue(pcs), "terminology")
    /\ Has(Get(TheValue(pcs), "terminology").children, "packages")

\* productClasses.terminology.productGroups.packages.products = result
WithPackages(catalog, result) ==
    Put(catalog, "terminology",
        [Get(catalog, "terminology") EXCEPT !.children =
            Put(@, "packages", [Get(@, "packages") EXCEPT !.children = result])])

\* this.productClasses = { terminology: new ProductClass({ name, productGroups:
\* { packages: new ProductGroup({ name, products: result }) } }) }
OnlyPackages(result) ==
    <<[k |-> "terminology",
       v |-> CoreNode(Undefined, FALSE,
                      <<[k |-> "packages", v |-> CoreNode(Undefined, FALSE, result)]>>)]>>

\* The products of the catalog, each with the keys of its class and group
GraphProducts(catalog) ==
    UNION {UNION {{[pc |-> catalog[i].k, pg |-> catalog[i].v.children[j].k,
                    id |-> catalog[i].v.children[j].v.children[n].k] :
                      n \in 1..Len(catalog[i].v.children[j].v.children)} :
                  j \in 1..Len(catalog[i].v.children)} :
           i \in 1..Len(catalog)}

GraphGroup(catalog, p) == Get(Get(catalog, p.pc).children, p.pg)

GraphProduct(catalog, p) == Get(GraphGroup(catalog, p).children, p.id)

\* this.products[id] = product
WithProduct(catalog, p, product) ==
    Put(catalog, p.pc,
        [Get(catalog, p.pc) EXCEPT !.children =
            Put(@, p.pg, [Get(@, p.pg) EXCEPT !.children = Put(@, p.id, product)])])

\* Product.parseResponse: the children the response carries are built anew with
\* coreObject: this.coreObject; a response that carries none leaves the ones held
ParsedChildren(product, id, ok) ==
    IF ok THEN NewNodes(CoreChildrenOf(id), product.coreObject) ELSE product.children

\* ProductGroup.getFullProduct after its request: new Product({ ...this.products[id] }),
\* parseResponse, fullyLoaded = true
LoadedCopy(product, id, ok) == CoreNode(product.coreObject, TRUE, ParsedChildren(product, id, ok))

\* Product.getItemGroup, Product.getCodeList: the fetched child is built with
\* coreObject: this.coreObject and added to the ones held
WithChild(product, name) ==
    [product EXCEPT !.children = Put(@, name, CoreNode(product.coreObject, FALSE, <<>>))]

InitCoreObject ==
    /\ productClasses = None
    /\ catalogs = EmptyHeap
    /\ products = EmptyHeap
    /\ childMaps = EmptyHeap
    /\ calls = [c \in Callers |-> IdleCall]
    /\ opCount = 0
    /\ node = None
    /\ lastRaw = None
    /\ arg = None
    /\ out = None
    /\ graph \in {[useNciSiteForCt |-> b, productClasses |-> None] : b \in BOOLEAN}
    /\ core = None

\* The client is left with the catalog
Holds(pcs) ==
    /\ graph' = [graph EXCEPT !.productClasses = pcs]
    /\ UNCHANGED <<productClasses, catalogs, products, childMaps, calls, opCount, node,
                   lastRaw, arg, out, core>>

\* cl.getProductClasses() on a client without a catalog, the request succeeds
CoreGetProductClasses ==
    /\ ~IsSome(graph.productClasses)
    /\ Holds(Some(ListedCatalog(TheCore)))

\* cl.getCTFromNCISite(), every page is served; it throws when useNciSiteForCt is not set
CoreGetCTFromNCISite ==
    /\ graph.useNciSiteForCt
    /\ Holds(IF HasPackages(graph.productClasses)
             THEN Some(WithPackages(TheValue(graph.productClasses), NciProducts))
             ELSE Some(OnlyPackages(NciProducts)))

\* productGroup.getFullProduct(id), the request succeeds (ok) or fails; it throws when the
\* group has no coreObject to send the request with
CoreGetFullProduct(p, ok) ==
    /\ IsSome(graph.productClasses)
    /\ p \in GraphProducts(TheValue(graph.productClasses))
    /\ GraphGroup(TheValue(graph.productClasses), p).coreObject # Undefined
    /\ Holds(Some(WithProduct(TheValue(graph.productClasses), p,
                              LoadedCopy(GraphProduct(TheValue(graph.productClasses), p),
                                         p.id, ok))))

\* product.getItemGroup(name) or product.getCodeList(name) of a child the product does not
\* hold, the request succeeds; without a coreObject the product sends no request
CoreGetChild(p, name) ==
    /\ IsSome(graph.productClasses)
    /\ p \in GraphProducts(TheValue(graph.productClasses))
    /\ GraphProduct(TheValue(graph.productClasses), p).coreObject # Undefined
    /\ ~GraphProduct(TheValue(graph.productClasses), p).fullyLoaded
    /\ \E i \in 1..Len(CoreChildrenOf(p.id)) : CoreChildrenOf(p.id)[i] = name
    /\ ~Has(GraphProduct(TheValue(graph.productClasses), p).children, name)
    /\ Holds(Some(WithProduct(TheValue(graph.productClasses), p,
                              WithChild(GraphProduct(TheValue(graph.productClasses), p),
                                        name))))

\* cl.reset()
CoreReset ==
    /\ IsSome(graph.productClasses)
    /\ Holds(None)

CoreChildNames == {"ADSL", "BDS", "C66742", "C66731"}

CoreProducts ==
    {[pc |-> pc, pg |-> pg, id |-> id] :
        pc \in {"data-analysis", "terminology"}, pg \in {"adam", "packages"},
        id \in {"adamig-1-1", "sdtmct-2020-03-27", "adamct-2019-12-20"}}

NextCoreObject ==
    \/ CoreGetProductClasses
    \/ CoreGetCTFromNCISite
    \/ \E p \in CoreProducts, ok \in BOOLEAN : CoreGetFullProduct(p, ok)
    \/ \E p \in CoreProducts, name \in CoreChildNames : CoreGetChild(p, name)
    \/ CoreReset

SpecCoreObject == InitCoreObject /\ [][NextCoreObject]_vars

\* The coreObjects of the nodes and of everything below them
RECURSIVE CoresBelow(_)
CoresBelow(nodes) ==
    UNION {{nodes[i].v.coreObject} \union CoresBelow(nodes[i].v.children) :
           i \in 1..Len(nodes)}

\* C24: every node reachable from the productClasses of a CdiscLibrary holds the CoreObject
\* instance of that CdiscLibrary, after catalog loads, full loads, point fetches and
\* getCTFromNCISite
C24_OneCoreObject ==
    IsSome(graph.productClasses) => CoresBelow(TheValue(graph.productClasses)) \subseteq {TheCore}

-----------------------------------------------------------------------------
(* reset() *)

\* The call waits for the answer to a /mdr/products request that it sent before a reset()
SentBeforeReset(call) ==
    /\ call.reset
    /\ call.href = CatalogHref
    /\ call.pc \in {"awaitCatalog", "awaitFirstCatalog", "awaitAliasCatalog",
                    "awaitRootCatalog"}

\* C25: after reset() the client holds no catalog, and it holds none until a
\* /mdr/products request sent after the reset is answered: reset() leaves productClasses
\* unset, and the answer to a request sent before the reset installs no catalog, so that
\* the next accessor that needs the catalog has to request it anew before it answers.
C25_ResetDiscardsCatalog ==
    [][/\ Reset => productClasses' = None
       /\ \A c \in Callers :
             SentBeforeReset(calls[c]) /\ Moves(c)
                => productClasses' = None]_vars

-----------------------------------------------------------------------------
(* The transport: CoreObject.apiRequest, the adapter and the response cache *)

\* The endpoint of the code list the requests of this part ask for
CodeListEndpoint ==
    <<SegMdr, SegCt, <<"p","a","c","k","a","g","e","s">>, <<"s","d","t","m","c","t">>,
      <<"c","o","d","e","l","i","s","t","s">>, <<"C","6","6","7","4","2">>>>

\* The byte counts a connection reports
ByteCounts == {1, 2}

StatusOk == 200

StatusNotFound == 404

\* What the network does with a request: a response with its connection, or an error
NetworkAnswers(endpoint) ==
    {[kind |-> "response", statusCode |-> StatusOk, json |-> json,
      connection |-> Some([bytesRead |-> n, bytesWritten |-> Len(endpoint)])] :
        json \in BOOLEAN, n \in ByteCounts}
    \cup {[kind |-> "response", statusCode |-> StatusNotFound, json |-> FALSE,
            connection |-> Some([bytesRead |-> n, bytesWritten |-> Len(endpoint)])] :
              n \in ByteCounts}
    \cup {[kind |-> "error", statusCode |-> 0, json |-> FALSE, connection |-> None]}

\* The traffic option of the client: absent, or counters carried over
TrafficOptions == {None, Some([incoming |-> 4, outgoing |-> 2])}

\* CoreObject constructor: this.traffic
InitialTraffic(traffic) ==
    IF IsSome(traffic) THEN TheValue(traffic) ELSE [incoming |-> 0, outgoing |-> 0]

\* The cache option: none, a cache that stores a response as it is, or one that stores it
\* without its connection attribute
CacheOptions == {"none", "keeps", "strips"}

\* What cache.match later yields for a response given to cache.put
Cached(cache, response) ==
    IF cache = "strips" THEN [response EXCEPT !.connection = None] ELSE response

IdleRequest ==
    [op |-> "idle", pc |-> "idle", returnRaw |-> FALSE, noCache |-> FALSE, events |-> <<>>,
     response |-> None, ret |-> "none"]

InitTransport ==
    /\ productClasses = None
    /\ catalogs = EmptyHeap
    /\ products = EmptyHeap
    /\ childMaps = EmptyHeap
    /\ calls = [c \in Callers |-> IdleCall]
    /\ opCount = 0
    /\ node = None
    /\ lastRaw = None
    /\ arg = None
    /\ out = None
    /\ graph = None
    /\ core \in {[cache |-> cache, seed |-> InitialTraffic(traffic),
                  traffic |-> InitialTraffic(traffic), stored |-> None, received |-> <<>>,
                  requests |-> [c \in Callers |-> IdleRequest], codeList |-> NewCodeList] :
                    cache \in CacheOptions, traffic \in TrafficOptions}

\* The adapter is given the cache: cache: noCache ? undefined : this.cache
UsesCache(request) == core.cache # "none" /\ ~request.noCache

\* The adapter starts: cache.match when it has a cache, the network request otherwise
Dispatch(request) ==
    IF UsesCache(request)
    THEN [request EXCEPT !.pc = "awaitMatch", !.events = <<"match">>]
    ELSE [request EXCEPT !.pc = "awaitRequest", !.events = <<"request">>]

\* Traffic counted for the responses with status 200 only
CountedWhenOk(traffic, response) ==
    IF IsSome(response.connection) /\ response.statusCode = StatusOk
    THEN [incoming |-> traffic.incoming + TheValue(response.connection).bytesRead,
          outgoing |-> traffic.outgoing + TheValue(response.connection).bytesWritten]
    ELSE traffic

\* Count traffic
Counted(traffic, response) ==
    IF IsSome(response.connection)
    THEN [incoming |-> traffic.incoming + TheValue(response.connection).bytesRead,
          outgoing |-> traffic.outgoing + TheValue(response.connection).bytesWritten]
    ELSE traffic

\* What CoreObject.apiRequest returns for the answer of the adapter
ApiResult(request, answer) ==
    IF answer.kind = "error" THEN (IF request.returnRaw THEN "failed" ELSE "blank")
    ELSE IF request.returnRaw THEN "response"
    ELSE IF answer.statusCode = StatusOk THEN (IF answer.json THEN "json" ELSE "body")
    ELSE "blank"

\* The object JSON.parse yields, or the blank object
ObjectOf(result) == IF result = "json" THEN RawCodeList ELSE EmptyObject

\* BasicFunctions.load after apiRequest returned
LoadResult(request, result) ==
    IF request.op = "load" THEN (IF IsObject(result) THEN "true" ELSE "false") ELSE result

\* The step of caller c in the transport
Transport(c, request, next) ==
    /\ core' = [next EXCEPT !.requests =
                   [d \in Callers |->
                       IF d = c THEN request
                       ELSE IF request.pc = "done" /\ core.requests[d].pc = "done"
                       THEN IdleRequest
                       ELSE core.requests[d]]]
    /\ UNCHANGED <<productClasses, catalogs, products, childMaps, calls, node, lastRaw, arg,
                   out, graph>>

\* The adapter's promise settles: apiRequest counts the traffic and returns, load parses
Answered(c, request, answer, next) ==
    /\ UNCHANGED opCount
    /\ Transport(c, [request EXCEPT !.pc = "done", !.response = Some(answer),
                                    !.ret = LoadResult(request, ApiResult(request, answer))],
                 [next EXCEPT
                     !.traffic = IF answer.kind = "error" THEN @ ELSE Counted(@, answer),
                     !.received = IF answer.kind = "error" THEN @ ELSE Append(@, answer),
                     !.codeList = IF request.op = "load"
                                     /\ IsObject(ApiResult(request, answer))
                                  THEN CodeListParseResponse(@,
                                           ObjectOf(ApiResult(request, answer)))
                                  ELSE @])

RequestFree(c) == core.requests[c].pc \in {"idle", "done"}

RequestCanBegin(c) == opCount < MaxOps /\ RequestFree(c) /\ (c = "c1" \/ ~RequestFree("c1"))

\* coreObject.apiRequest(endpoint, { returnRaw, noCache })
CoreApiRequest(c, returnRaw, noCache) ==
    /\ RequestCanBegin(c)
    /\ opCount' = opCount + 1
    /\ Transport(c, Dispatch([IdleRequest EXCEPT !.op = "apiRequest",
                                                 !.returnRaw = returnRaw,
                                                 !.noCache = noCache]), core)

\* codeList.load(): getRawResponse requests this.href with the default options
CodeListLoad(c) ==
    /\ RequestCanBegin(c)
    /\ opCount' = opCount + 1
    /\ Transport(c, Dispatch([IdleRequest EXCEPT !.op = "load"]), core)

\* cache.match(req) resolves: a hit is the answer, a miss goes to the network
CacheMatched(c) ==
    /\ core.requests[c].pc = "awaitMatch"
    /\ IF IsSome(core.stored)
       THEN Answered(c, core.requests[c], TheValue(core.stored), core)
       ELSE /\ UNCHANGED opCount
            /\ Transport(c, [core.requests[c] EXCEPT !.pc = "awaitRequest",
                                                     !.events = Append(@, "request")], core)

\* Every response of the network is put in the cache
PutsAnyResponse(request, answer) == UsesCache(request) /\ answer.kind = "response"

\* Add the response to cache: after a miss, if (response.statusCode === 200)
PutsInCache(request, answer) ==
    UsesCache(request) /\ answer.kind = "response" /\ answer.statusCode = StatusOk

\* request(req) settles: with a cache, a response with status 200 is put first
NetworkAnswered(c, answer) ==
    /\ core.requests[c].pc = "awaitRequest"
    /\ IF PutsInCache(core.requests[c], answer)
       THEN /\ UNCHANGED opCount
            /\ Transport(c, [core.requests[c] EXCEPT !.pc = "awaitPut",
                                                     !.response = Some(answer),
                                                     !.events = Append(@, "put")], core)
       ELSE Answered(c, core.requests[c], answer, core)

\* cache.put(req, response) resolves
CachePut(c) ==
    /\ core.requests[c].pc = "awaitPut"
    /\ Answered(c, core.requests[c], TheValue(core.requests[c].response),
                [core EXCEPT !.stored =
                    Some(Cached(core.cache, TheValue(core.requests[c].response)))])

\* cl.reset() on the client of this coreObject
TransportReset ==
    /\ opCount < MaxOps
    /\ opCount' = opCount + 1
    /\ productClasses' = None
    /\ UNCHANGED <<catalogs, products, childMaps, calls, node, lastRaw, arg, out, graph, core>>

NextTransport ==
    \/ \E c \in Callers, returnRaw \in BOOLEAN, noCache \in BOOLEAN :
          CoreApiRequest(c, returnRaw, noCache)
    \/ \E c \in Callers : CodeListLoad(c)
    \/ \E c \in Callers : CacheMatched(c)
    \/ \E c \in Callers : \E answer \in NetworkAnswers(CodeListEndpoint) :
          NetworkAnswered(c, answer)
    \/ \E c \in Callers : CachePut(c)
    \/ TransportReset

SpecTransport == InitTransport /\ [][NextTransport]_vars

-----------------------------------------------------------------------------
(* Traffic *)

RECURSIVE BytesRead(_)
\* The bytes read of the responses that carry a connection
BytesRead(responses) ==
    IF responses = <<>> THEN 0
    ELSE (IF IsSome(Head(responses).connection)
          THEN TheValue(Head(responses).connection).bytesRead ELSE 0)
         + BytesRead(Tail(responses))

RECURSIVE BytesWritten(_)
\* The bytes written of the responses that carry a connection
BytesWritten(responses) ==
    IF responses = <<>> THEN 0
    ELSE (IF IsSome(Head(responses).connection)
          THEN TheValue(Head(responses).connection).bytesWritten ELSE 0)
         + BytesWritten(Tail(responses))

\* apiRequest was handed a response in this step
Receives(c) ==
    /\ core.requests[c].pc \notin {"idle", "done"}
    /\ core'.requests[c].pc = "done"
    /\ Len(core'.received) = Len(core.received) + 1

\* C26: the traffic counters are the initial counters plus the bytes read and written of
\* the responses received so far that carry a connection, in whatever order the requests
\* completed; they never decrease, reset() leaves them unchanged, and a response without a
\* connection, as a cache serves it, adds nothing.
C26_TrafficAccounting ==
    /\ [](/\ core.traffic.incoming = core.seed.incoming + BytesRead(core.received)
          /\ core.traffic.outgoing = core.seed.outgoing + BytesWritten(core.received))
    /\ [][/\ core'.traffic.incoming >= core.traffic.incoming
          /\ core'.traffic.outgoing >= core.traffic.outgoing
          /\ TransportReset => core'.traffic = core.traffic
          /\ \A c \in Callers :
                Receives(c) /\ ~IsSome(TheValue(core'.requests[c].response).connection)
                   => core'.traffic = core.traffic]_vars

\* Counters carried over, and three responses received: two over the network with
\* different byte counts, one from the cache without a connection
C26_Witness ==
    /\ core.seed.incoming = 4
    /\ Len(core.received) = 3
    /\ \E i, j, k \in 1..3 :
          /\ ~IsSome(core.received[i].connection)
          /\ IsSome(core.received[j].connection)
          /\ IsSome(core.received[k].connection)
          /\ TheValue(core.received[j].connection).bytesRead = 1
          /\ TheValue(core.received[k].connection).bytesRead = 2
          /\ core.received[k].statusCode = StatusNotFound
    /\ core.traffic.incoming = 7

\* getTrafficStats has returned for the given format
TrafficStatsReturned(format) ==
    /\ IsSome(arg) /\ IsSome(out)
    /\ TheValue(arg).fn = "getTrafficStats"
    /\ TheValue(arg).format = format

\* The counter the call asked for
AskedTraffic ==
    IF TheValue(arg).type = "incoming" THEN TheValue(arg).incoming
    ELSE IF TheValue(arg).type = "outgoing" THEN TheValue(arg).outgoing
    ELSE TheValue(arg).incoming + TheValue(arg).outgoing

\* tenths is the byte count over 1024^k to the nearest tenth, or the floor of 0.1
IsMagnitude(tenths, bytes, k) ==
    \/ tenths = 1 /\ 10 * bytes < Power(Kilo, k)
    \/ /\ tenths >= 1
       /\ 2 * (10 * bytes - tenths * Power(Kilo, k)) <= Power(Kilo, k)
       /\ 2 * (tenths * Power(Kilo, k) - 10 * bytes) <= Power(Kilo, k)

\* C27: in 'char' format getTrafficStats returns '0 bytes' for a counter of zero, and for a
\* counter above zero the count over a power of 1024, to one decimal and not below 0.1,
\* followed by one of the unit suffixes; in 'num' format it returns the byte count of the
\* incoming counter, the outgoing counter, or their sum for 'all'.
C27_TrafficStats ==
    /\ TrafficStatsReturned("char") =>
          IF AskedTraffic = 0 THEN TheValue(out) = ZeroBytes
          ELSE /\ TheValue(out).tenths >= 1
               /\ \E k \in 1..Len(ByteUnits) :
                     /\ TheValue(out).unit = ByteUnits[k]
                     /\ IsMagnitude(TheValue(out).tenths, AskedTraffic, k)
    /\ TrafficStatsReturned("num") =>
          TheValue(out) = [tenths |-> 10 * AskedTraffic, unit |-> "num"]

\* One byte received is reported as 0.1 kB
C27_Witness ==
    /\ TrafficStatsReturned("char")
    /\ TheValue(arg).type = "incoming"
    /\ TheValue(arg).incoming = 1
    /\ TheValue(out) = [tenths |-> 1, unit |-> " kB"]

-----------------------------------------------------------------------------
(* BasicFunctions.load *)

\* codeList.load() of caller c returns in this step
LoadReturns(c) ==
    /\ core.requests[c].op = "load"
    /\ core.requests[c].pc \notin {"idle", "done"}
    /\ core'.requests[c].pc = "done"

\* The request succeeded: a response with status 200
Succeeded(answer) == answer.kind = "response" /\ answer.statusCode = StatusOk

\* C28: load returns true only when the request succeeded and its response was parsed into
\* the object; when the request fails load returns false and the fields of the object are
\* left as they were.
C28_LoadReportsFailure ==
    [][\A c \in Callers :
          LoadReturns(c) =>
             /\ core'.requests[c].ret = "true" =>
                   /\ Succeeded(TheValue(core'.requests[c].response))
                   /\ core'.codeList = CodeListParseResponse(core.codeList, RawCodeList)
             /\ ~Succeeded(TheValue(core'.requests[c].response)) =>
                   /\ core'.requests[c].ret = "false"
                   /\ core'.codeList = core.codeList]_vars

-----------------------------------------------------------------------------
(* The response cache *)

\* The adapter of this request was given a cache
WithCache(request) == request.op # "idle" /\ core.cache # "none" /\ ~request.noCache

\* The request has been answered with status 200
AnsweredOk(request) ==
    /\ IsSome(request.response)
    /\ TheValue(request.response).kind = "response"
    /\ TheValue(request.response).statusCode = StatusOk

\* C29: with a cache, the adapter consults the cache before it turns to the network; on a
\* hit it makes no network request and puts nothing; on a miss it makes exactly one network
\* request, and it invokes cache.put, with that response, only if the status is 200.
C29_CacheProtocol ==
    /\ [](\A c \in Callers :
             WithCache(core.requests[c]) =>
                /\ core.requests[c].events \in
                      {<<"match">>, <<"match", "request">>, <<"match", "request", "put">>}
                /\ core.requests[c].events = <<"match", "request", "put">>
                      => AnsweredOk(core.requests[c])
                /\ core.requests[c].pc = "awaitPut"
                      => core.requests[c].events = <<"match", "request", "put">>)
    /\ [][\A c \in Callers :
             /\ WithCache(core.requests[c]) /\ core.requests[c].pc = "awaitMatch"
                /\ core'.requests[c] # core.requests[c]
                   => IF IsSome(core.stored)
                      THEN /\ core'.requests[c].pc = "done"
                           /\ core'.requests[c].events = <<"match">>
                           /\ core'.requests[c].response = core.stored
                           /\ core'.stored = core.stored
                      ELSE /\ core'.requests[c].pc = "awaitRequest"
                           /\ core'.requests[c].events = <<"match", "request">>
             /\ core'.stored # core.stored
                   => \E d \in Callers :
                         /\ core.requests[d].pc = "awaitPut"
                         /\ core'.requests[d].pc = "done"
                         /\ core'.stored =
                               Some(Cached(core.cache, TheValue(core.requests[d].response)))]_vars

\* A request was answered from the cache, which an earlier request had filled
C29_Witness ==
    /\ IsSome(core.stored)
    /\ Len(core.received) >= 2
    /\ \E c \in Callers :
          /\ WithCache(core.requests[c])
          /\ core.requests[c].pc = "done"
          /\ core.requests[c].events = <<"match">>

-----------------------------------------------------------------------------
(* The load flag after a failed request *)

\* The request for the whole product that caller c waits for is answered in this step, and
\* not with status 200
DetailRequestFails(c, pc) ==
    /\ calls[c].pc = pc
    /\ Moves(c)
    /\ calls'[c].cause # "ok"

\* The product the group of the call of c holds after the step
HeldProductAfter(c) ==
    products'[Get(GroupOf(catalogs'[TheValue(calls[c].cat)], calls[c].pcId,
                          calls[c].pgId).products,
                  calls[c].pid)]

\* C30: a product is marked fullyLoaded only when a request for its details returned
\* successfully: when the request of ProductGroup.getFullProduct, or of the product itself,
\* for a product that is not fully loaded fails, the product in the catalog is not marked
\* fully loaded afterwards, so that the next call requests the details again.
C30_FailedLoadLeavesFlag ==
    [][\A c \in Callers :
          /\ DetailRequestFails(c, "awaitDetail")
             /\ ~HeldProduct(calls[c], World).fullyLoaded
                => ~HeldProductAfter(c).fullyLoaded
          /\ DetailRequestFails(c, "awaitProduct")
             /\ ~products[TheValue(calls[c].prod)].fullyLoaded
                => ~products'[TheValue(calls[c].prod)].fullyLoaded]_vars

-----------------------------------------------------------------------------
(* A failed request for a loaded product *)

\* The scalar fields of a product that its response carries
ProductScalars(prod) ==
    [name |-> prod.name, description |-> prod.description, source |-> prod.source,
     effectiveDate |-> prod.effectiveDate, registrationStatus |-> prod.registrationStatus,
     version |-> prod.version]

\* C31: a failed re-fetch does not degrade a loaded product: when the request that
\* ProductGroup.getFullProduct made for a fully loaded product fails, the product the
\* catalog holds afterwards has the scalar fields (name, description, source,
\* effectiveDate, registrationStatus, version) and the item groups it had before.
C31_FailedRefetchKeepsProduct ==
    [][\A c \in Callers :
          DetailRequestFails(c, "awaitDetail") /\ HeldProduct(calls[c], World).fullyLoaded
             => /\ ProductScalars(HeldProductAfter(c))
                      = ProductScalars(HeldProduct(calls[c], World))
                /\ GetCurrentItemGroups(HeldProductAfter(c), childMaps')
                      = GetCurrentItemGroups(HeldProduct(calls[c], World), childMaps)]_vars

-----------------------------------------------------------------------------
(* getProductClasses and the resident catalog *)

\* C32: getProductClasses requests /mdr/products only while no catalog is resident: a call
\* that begins while the client holds a catalog returns that catalog object at once,
\* without a request, and leaves it in place; a call that begins without one requests
\* /mdr/products; and when that request fails nothing is stored, so that the next call
\* requests again.
C32_CatalogRequestedOnlyWhenAbsent ==
    [][\A c \in Callers :
          /\ Starts(c, "getProductClasses") /\ IsSome(productClasses)
                => /\ calls'[c].pc = "done"
                   /\ calls'[c].reqs = <<>>
                   /\ calls'[c].ret = [kind |-> "productClasses", val |-> productClasses]
                   /\ productClasses' = productClasses
          /\ Starts(c, "getProductClasses") /\ ~IsSome(productClasses)
                => /\ calls'[c].pc = "awaitCatalog"
                   /\ calls'[c].reqs = <<CatalogHref>>
          /\ calls[c].pc = "awaitCatalog" /\ Moves(c) /\ calls'[c].cause # "ok"
                => productClasses' = productClasses]_vars

\* The third operation, a getProductClasses on a client that holds a catalog, has returned
\* the resident catalog without a request
C32_Witness ==
    /\ opCount = 3
    /\ IsSome(productClasses)
    /\ \E c \in Callers :
          /\ calls[c].op = "getProductClasses"
          /\ calls[c].pc = "done"
          /\ calls[c].reqs = <<>>
          /\ calls[c].ret = [kind |-> "productClasses", val |-> productClasses]

-----------------------------------------------------------------------------
(* An unknown name on a fully loaded product *)

\* C33: Product.getItemGroup on a fully loaded product, with a name that none of its item
\* groups has, sends no request and completes without throwing: it returns undefined or a
\* not-found value, whether or not a format is asked for.
C33_UnknownNameOnLoadedProduct ==
    [][\A c \in Callers :
          (/\ Starts(c, "Product.getItemGroup")
           /\ products[TheValue(calls'[c].prod)].fullyLoaded
           /\ ~IsSome(FindLoaded(GetCurrentItemGroups(products[TheValue(calls'[c].prod)],
                                                      childMaps),
                                 calls'[c].name)))
          => /\ calls'[c].pc = "done"
             /\ calls'[c].reqs = <<>>
             /\ calls'[c].ret.kind \in {"undefined", "null"}]_vars

-----------------------------------------------------------------------------
(* Concurrent fetches of one item group *)

\* The entries of a mapping under the given key
EntriesUnder(m, k) == {i \in 1..Len(m) : m[i].k = k}

-----------------------------------------------------------------------------
(* Alias resolution over the whole catalog *)

\* C35: alias resolution of the client prefers the better tier across the whole catalog:
\* when a product id of the catalog equals the alias but for the case of its letters,
\* cl.getProductIdByAlias returns that id, in whatever order the product classes and groups
\* come and whatever other ids contain the alias.
C35_ExactMatchAcrossCatalog ==
    (/\ AppliedFn("getProductIdByAlias")
     /\ \E n \in 1..2 : \E i \in 1..Len(TheValue(arg).layout[n]) :
           EqualIgnoringCase(TheValue(arg).layout[n][i], TheValue(arg).alias))
    => /\ IsSome(TheValue(out).val)
       /\ EqualIgnoringCase(TheValue(TheValue(out).val).productId, TheValue(arg).alias)

-----------------------------------------------------------------------------
(* The items findMatchingItems returns *)

\* The elements of a sequence
Elements(seq) == {seq[i] : i \in 1..Len(seq)}

\* The elements of an optional sequence
ElementsOf(opt) == IF IsSome(opt) THEN Elements(TheValue(opt)) ELSE {}

\* The items of an item group with those of its scenarios
GroupSubtree(ig) ==
    ElementsOf(ig.items)
        \union UNION {Elements(scenario.fields) : scenario \in ElementsOf(ig.scenarios)}

\* The items in the loaded subtree of a container
Subtree(c) ==
    IF c.class = "Scenario" THEN Elements(c.fields)
    ELSE IF c.class = "DataStructure"
    THEN UNION {GroupSubtree(ig) : ig \in ElementsOf(c.analysisVariableSets)}
    ELSE IF c.class = "DataClass"
    THEN UNION {GroupSubtree(ig) : ig \in ElementsOf(c.datasets) \union ElementsOf(c.domains)}
            \union ElementsOf(c.classVariables) \union ElementsOf(c.cdashModelFields)
    ELSE IF c.class = "Product"
    THEN IF IsSome(c.dataStructures)
         THEN UNION {UNION {GroupSubtree(ig) : ig \in ElementsOf(ds.analysisVariableSets)} :
                        ds \in ElementsOf(c.dataStructures)}
         ELSE UNION {UNION {GroupSubtree(ig) :
                               ig \in ElementsOf(dc.datasets) \union ElementsOf(dc.domains)}
                        \union ElementsOf(dc.classVariables)
                        \union ElementsOf(dc.cdashModelFields) :
                        dc \in ElementsOf(c.dataClasses)}
    ELSE GroupSubtree(c)

\* C36: with firstOnly = false findMatchingItems returns an item if and only if the item
\* lies in the loaded subtree of the container (its item groups, class-level variables and
\* fields, and scenarios; at Product level the data structures when the product has that
\* collection, its data classes otherwise) and matchItem accepts the name against it in the
\* given mode.
C36_AllMatchesOfSubtree ==
    (AppliedFn("findMatchingItems") /\ ~TheValue(arg).firstOnly)
    => /\ TheValue(out).kind = "return"
       /\ Elements(TheValue(out).val)
             = {item \in Subtree(TheValue(arg).container) :
                   MatchItem(TheValue(arg).name, item.name, TheValue(arg).mode).val}

\* All matches of a data class were asked for: those of a dataset, of the scenarios of a
\* domain, of the class variables and of the model fields are returned
C36_Witness ==
    /\ AppliedFn("findMatchingItems")
    /\ ~TheValue(arg).firstOnly
    /\ TheValue(arg).container.class = "DataClass"
    /\ \E d, s, v, f \in Elements(TheValue(out).val) :
          /\ d \in UNION {GroupSubtree(ig) : ig \in ElementsOf(TheValue(arg).container.datasets)}
          /\ s \in UNION {GroupSubtree(ig) : ig \in ElementsOf(TheValue(arg).container.domains)}
          /\ v \in ElementsOf(TheValue(arg).container.classVariables)
          /\ f \in ElementsOf(TheValue(arg).container.cdashModelFields)

-----------------------------------------------------------------------------
(* Full mode against partial mode *)

\* C37: partial mode is at least as permissive as full mode: whenever matchItem accepts a
\* name against a template in 'full' mode it accepts the same pair in 'partial' mode.
C37_FullImpliesPartial ==
    (Matched("full") /\ TheValue(out) = Returned(TRUE))
    => MatchItem(TheValue(arg).name, TheValue(arg).itemName, "partial") = Returned(TRUE)

-----------------------------------------------------------------------------
(* The code lists of a terminology product *)

\* C38: getCodeListList on a terminology product that has not been fully loaded requests
\* the listing {href}/codelists and returns one entry (conceptId, preferredTerm, and href
\* unless the type is 'short') for each code list the server lists for the product.
C38_ListsCodeListsOfServer ==
    (/\ AppliedFn("getCodeListList")
     /\ TheValue(arg).product.type = "Terminology"
     /\ ~TheValue(arg).product.fullyLoaded
     /\ TheValue(arg).answer.kind = "json"
     /\ HasOwn(TheValue(arg).answer.val, "links"))
    => /\ TheValue(out).reqs = <<TheValue(TheValue(arg).product.href) \o <<TxtCodelists>>>>
       /\ TheValue(out).ret
             = Returned([i \in 1..Len(TheValue(arg).answer.val.links.codelists) |->
                   CodeListEntry(
                       CodeListAt(TheValue(arg).answer.val.links.codelists[i].href,
                                  TheValue(arg).answer.val.links.codelists[i].title),
                       TheValue(arg).type)])

\* C39: when the request of getCodeList(id) does not yield the code list, the call returns
\* undefined (for an id the mapping did not hold) and the codelists mapping of the product
\* is as it was; when it does, the code list is held under its conceptId and every other
\* code list of the mapping is as it was.
C39_CodeListAddedOnlyOnSuccess ==
    (AppliedFn("getCodeList") /\ TheValue(out).reqs # <<>>)
    => /\ TheValue(arg).answer.kind # "json"
          => /\ ~Has(TheValue(TheValue(arg).product.codelists), TheValue(arg).id)
                => TheValue(out).ret = Returned(None)
             /\ TheValue(out).codelists = TheValue(arg).product.codelists
       /\ TheValue(arg).answer.kind = "json"
          => /\ Has(TheValue(TheValue(out).codelists), TheValue(arg).id)
             /\ TheValue(out).ret
                   = Returned(Some(Get(TheValue(TheValue(out).codelists), TheValue(arg).id)))
             /\ \A i \in 1..Len(TheValue(TheValue(arg).product.codelists)) :
                   TheValue(TheValue(arg).product.codelists)[i].k # TheValue(arg).id
                   => Has(TheValue(TheValue(out).codelists),
                          TheValue(TheValue(arg).product.codelists)[i].k)
                      /\ Get(TheValue(TheValue(out).codelists),
                             TheValue(TheValue(arg).product.codelists)[i].k)
                            = TheValue(TheValue(arg).product.codelists)[i].v

====
